---- MODULE Spec2Model ----
(***************************************************************************)
(* A model of species.fit.fit_model.FitModel: the construction of the      *)
(* parameter registry (modelpar, bounds, fix_param, normal_prior,          *)
(* cube_index), the log-likelihood function called by the nested-sampling  *)
(* engines, and the hand-over of the samples at the end of a run.          *)
(*                                                                         *)
(* Floats are modelled by integers.  Radii are counted in units of         *)
(* 0.5 R_J, so that the default radius prior (0.5, 5.0) is (1, 10).        *)
(* A Python dict is a sequence of <<key, value>> pairs in insertion order. *)
(* A Python exception is the name of its class in the field exc.           *)
(***************************************************************************)
EXTENDS Integers, Sequences, FiniteSets, TLC

VARIABLES cfg, pc, obj, call, prior, engine, sink, again, mpi, pool

vars == <<cfg, pc, obj, call, prior, engine, sink, again, mpi, pool>>

(***************************************************************************)
(* Bounds of the model.                                                    *)
(***************************************************************************)
\* Sampled parameter values are drawn from 0..MaxVal.
MaxVal == 1

\* Number of sampling runs on one FitModel instance.
MaxRuns == 2

Vals == 0..MaxVal

\* The flux ratios phot_flux_1 / phot_flux_0 that the forward model gives
RatioVals == 0..(MaxVal + 2)

(***************************************************************************)
(* Python values that occur in the bounds dictionary.                      *)
(***************************************************************************)
None == [t |-> "none"]

Pair(lo, hi) == [t |-> "pair", lo |-> lo, hi |-> hi]

\* A pair (lo, hi) of numbers that are no whole numbers, given as doubles
FloatPair(lo, hi) == [t |-> "pair", lo |-> lo, hi |-> hi, float |-> TRUE]

Tup(a, b) == [t |-> "tuple", items |-> <<a, b>>]

List(s) == [t |-> "list", items |-> s]

IsNone(v) == v.t = "none"

\* isinstance(v, tuple)
IsTuple(v) == v.t \in {"pair", "tuple"}

\* isinstance(v, list)
IsList(v) == v.t = "list"

\* v[n - 1] raises IndexError: v is a tuple or list of fewer than n items
Short(v, n) == v.t \in {"tuple", "list"} /\ Len(v.items) < n

\* isinstance(v[0], tuple), where v[0] exists: v is a tuple or list whose
\* first item is a (lo, hi) tuple
FirstIsTuple(v) == v.t \in {"tuple", "list"} /\ IsTuple(v.items[1])

\* v[0] is None and v[1] is None, where the items looked at exist (v[1] is
\* looked at only if v[0] is None)
BothNone(v) == v.t \in {"tuple", "list"} /\ IsNone(v.items[1]) /\ IsNone(v.items[2])

\* v[0] is None and v[1] raises IndexError
NoneThenShort(v) == v.t \in {"tuple", "list"} /\ Len(v.items) = 1 /\ IsNone(v.items[1])

\* v[0] of a two-item tuple or list (an item), 0-based index i
Item(v, i) == v.items[i + 1]

\* (v[0], v[1]) of a sequence of two items or more
FirstTwo(v) == IF v.t = "pair" THEN Pair(v.lo, v.hi) ELSE Tup(Item(v, 0), Item(v, 1))

(***************************************************************************)
(* Python dict: insertion-ordered sequence of <<key, value>>.              *)
(***************************************************************************)
EmptyDict == <<>>

Has(d, k) == \E i \in 1..Len(d) : d[i][1] = k

Get(d, k) == d[CHOOSE i \in 1..Len(d) : d[i][1] = k][2]

Put(d, k, v) ==
    IF Has(d, k)
    THEN [i \in 1..Len(d) |-> IF d[i][1] = k THEN <<k, v>> ELSE d[i]]
    ELSE Append(d, <<k, v>>)

DelKey(d, k) ==
    LET keep(e) == e[1] # k
    IN SelectSeq(d, keep)

Keys(d) == [i \in 1..Len(d) |-> d[i][1]]

(***************************************************************************)
(* Python list helpers.                                                    *)
(***************************************************************************)
InList(s, x) == \E i \in 1..Len(s) : s[i] = x

\* list.index(x): position of the first occurrence (1-based here)
IndexOf(s, x) == CHOOSE i \in 1..Len(s) : s[i] = x /\ \A j \in 1..(i - 1) : s[j] # x

\* list.insert(i, x) with i the 1-based position the new item takes
InsertAt(s, i, x) == SubSeq(s, 1, i - 1) \o <<x>> \o SubSeq(s, i, Len(s))

\* list.remove(x): removes the first occurrence
RemoveFirst(s, x) ==
    LET i == IndexOf(s, x)
    IN SubSeq(s, 1, i - 1) \o SubSeq(s, i + 1, Len(s))

Count(s, x) == Cardinality({i \in 1..Len(s) : s[i] = x})

(***************************************************************************)
(* Floating-point numbers.  The entries of the parameter cube are doubles: *)
(* (-1)^neg * m * 2^e with the mantissa m a sequence of bits, lowest bit   *)
(* first.  In the canonical form m has no leading zero and no trailing     *)
(* zero (zero is the empty mantissa with e = 0), so that two doubles are   *)
(* equal exactly if their records are.  The range of the exponent is not   *)
(* limited (no overflow, no subnormal numbers).  The infinities and NaN    *)
(* are records of their own, with the empty mantissa and e = 1 and e = 2.  *)
(***************************************************************************)
\* The bits of the mantissa of a double
Precision == 53

Zero == [neg |-> FALSE, m |-> <<>>, e |-> 0]

\* -np.inf and np.inf
Infinity(neg) == [neg |-> neg, m |-> <<>>, e |-> 1]

\* np.nan
NaN == [neg |-> FALSE, m |-> <<>>, e |-> 2]

IsInf(x) == Len(x.m) = 0 /\ x.e = 1

IsNaN(x) == Len(x.m) = 0 /\ x.e = 2

IsZero(x) == Len(x.m) = 0 /\ x.e = 0

Zeros(k) == [i \in 1..k |-> 0]

\* The mantissa without its leading zeros (the highest bits)
TrimHigh(b) ==
    LET ones == {i \in 1..Len(b) : b[i] = 1}
    IN IF ones = {} THEN <<>>
       ELSE SubSeq(b, 1, CHOOSE i \in ones : \A j \in ones : j <= i)

\* The mantissa without its trailing zeros, which go to the exponent
StripLow(neg, m, e) ==
    LET ones == {i \in 1..Len(m) : m[i] = 1}
    IN IF ones = {} THEN Zero
       ELSE LET k == CHOOSE i \in ones : \A j \in ones : i <= j
            IN [neg |-> neg, m |-> SubSeq(m, k, Len(m)), e |-> e + k - 1]

Canon(neg, m, e) == StripLow(neg, TrimHigh(m), e)

Bit(b, i) == IF i >= 1 /\ i <= Len(b) THEN b[i] ELSE 0

\* The bits lo..hi of a + b + c for a carry c into the bit lo, and after
\* them the carry out of the bit hi
RECURSIVE AddRange(_, _, _, _, _)
AddRange(a, b, c, lo, hi) ==
    IF lo > hi THEN <<c>>
    ELSE IF lo = hi
    THEN <<(Bit(a, lo) + Bit(b, lo) + c) % 2, (Bit(a, lo) + Bit(b, lo) + c) \div 2>>
    ELSE LET mid == (lo + hi) \div 2
             low == AddRange(a, b, c, lo, mid)
         IN SubSeq(low, 1, Len(low) - 1)
            \o AddRange(a, b, low[Len(low)], mid + 1, hi)

\* a + b + c for a carry c
AddBits(a, b, c) ==
    LET n == IF Len(a) > Len(b) THEN Len(a) ELSE Len(b)
        sum == AddRange(a, b, c, 1, n)
    IN IF sum[n + 1] = 1 THEN sum ELSE SubSeq(sum, 1, n)

\* The bits lo..hi of a - b - c for a borrow c from the bit lo, and after
\* them the borrow from the bit above hi
RECURSIVE SubRange(_, _, _, _, _)
SubRange(a, b, c, lo, hi) ==
    IF lo > hi THEN <<c>>
    ELSE IF lo = hi
    THEN <<(Bit(a, lo) - Bit(b, lo) - c + 2) % 2,
           IF Bit(a, lo) - Bit(b, lo) - c < 0 THEN 1 ELSE 0>>
    ELSE LET mid == (lo + hi) \div 2
             low == SubRange(a, b, c, lo, mid)
         IN SubSeq(low, 1, Len(low) - 1)
            \o SubRange(a, b, low[Len(low)], mid + 1, hi)

\* a - b - c for a borrow c, where a >= b + c
SubBits(a, b, c) == SubSeq(SubRange(a, b, c, 1, Len(a)), 1, Len(a))

\* a < b for mantissas without leading zeros
LessBits(a, b) ==
    \/ Len(a) < Len(b)
    \/ /\ Len(a) = Len(b)
       /\ \E i \in 1..Len(a) :
              a[i] < b[i] /\ \A j \in (i + 1)..Len(a) : a[j] = b[j]

\* a * b[lo..hi] * 2^(lo - 1): the sum of the shifted copies of a
RECURSIVE MulRange(_, _, _, _)
MulRange(a, b, lo, hi) ==
    IF lo = hi THEN (IF b[lo] = 1 THEN Zeros(lo - 1) \o a ELSE <<>>)
    ELSE LET mid == (lo + hi) \div 2
         IN AddBits(MulRange(a, b, lo, mid), MulRange(a, b, mid + 1, hi), 0)

MulBits(a, b) == IF Len(b) = 0 THEN <<>> ELSE MulRange(a, b, 1, Len(b))

\* Round to nearest, ties to even: the result of every operation on doubles
FlRound(x) ==
    IF Len(x.m) <= Precision THEN x
    ELSE LET k == Len(x.m) - Precision
             kept == SubSeq(x.m, k + 1, Len(x.m))
             up == x.m[k] = 1 /\ (kept[1] = 1 \/ \E i \in 1..(k - 1) : x.m[i] = 1)
         IN Canon(x.neg, IF up THEN AddBits(kept, <<1>>, 0) ELSE kept, x.e + k)

\* The exact sum of two doubles
ExactAdd(x, y) ==
    IF Len(x.m) = 0 THEN y
    ELSE IF Len(y.m) = 0 THEN x
    ELSE LET e0 == IF x.e < y.e THEN x.e ELSE y.e
             mx == Zeros(x.e - e0) \o x.m
             my == Zeros(y.e - e0) \o y.m
         IN IF x.neg = y.neg THEN Canon(x.neg, AddBits(mx, my, 0), e0)
            ELSE IF LessBits(mx, my) THEN Canon(y.neg, SubBits(my, mx, 0), e0)
            ELSE Canon(x.neg, SubBits(mx, my, 0), e0)

FlNeg(x) == IF IsZero(x) \/ IsNaN(x) THEN x ELSE [x EXCEPT !.neg = ~@]

\* x + y, x - y and x * y of Python floats: inf - inf and inf * 0 are NaN
FlAdd(x, y) ==
    IF IsNaN(x) \/ IsNaN(y) THEN NaN
    ELSE IF IsInf(x) /\ IsInf(y) THEN (IF x.neg = y.neg THEN x ELSE NaN)
    ELSE IF IsInf(x) THEN x
    ELSE IF IsInf(y) THEN y
    ELSE FlRound(ExactAdd(x, y))

FlSub(x, y) == FlAdd(x, FlNeg(y))

FlMul(x, y) ==
    IF IsNaN(x) \/ IsNaN(y) THEN NaN
    ELSE IF IsInf(x) \/ IsInf(y)
    THEN (IF IsZero(x) \/ IsZero(y) THEN NaN ELSE Infinity(x.neg # y.neg))
    ELSE FlRound(Canon(x.neg # y.neg, MulBits(x.m, y.m), x.e + y.e))

RECURSIVE NatBits(_)
NatBits(k) == IF k = 0 THEN <<>> ELSE <<k % 2>> \o NatBits(k \div 2)

\* The integer that stands for -inf where the model writes whole numbers
MinusInf == 0 - 1000000

\* float(n) of a small integer n
FromInt(n) ==
    IF n = MinusInf THEN Infinity(TRUE)
    ELSE Canon(n < 0, NatBits(IF n < 0 THEN -n ELSE n), 0)

\* The bits of hexadecimal digits, the highest digit first
RECURSIVE HexBits(_)
HexBits(h) ==
    IF Len(h) = 0 THEN <<>>
    ELSE LET d == h[Len(h)]
         IN <<d % 2, (d \div 2) % 2, (d \div 4) % 2, d \div 8>>
            \o HexBits(SubSeq(h, 1, Len(h) - 1))

\* The double 0.1 is 0x1.999999999999ap-4
TenthBits == HexBits(<<1, 9, 9, 9, 9, 9, 9, 9, 9, 9, 9, 9, 9, 10>>)

\* The Python floats -0.1 and 0.2
MinusTenth == Canon(TRUE, TenthBits, -56)

TwoTenths == Canon(FALSE, TenthBits, -55)

\* The Python float 0.1
Tenth == Canon(FALSE, TenthBits, -56)

\* The unit-cube values 0, 0.5 and 1
Half == Canon(FALSE, <<1>>, -1)

UnitValues == {Zero, Half, FromInt(1)}

(***************************************************************************)
(* Strings: f-string formatting and the slice key[:-2].                    *)
(***************************************************************************)
Digit(i) == CASE i = 0 -> "0" [] i = 1 -> "1" [] i = 2 -> "2" [] i = 3 -> "3"

\* f"{key}_{i}"
Sfx(key, i) == key \o "_" \o Digit(i)

\* key[:-2]
StripLast2(key) == IF Len(key) <= 2 THEN "" ELSE SubSeq(key, 1, Len(key) - 2)

\* str.find("."): the position of the first dot of s from position i on, 0
\* if there is none
RECURSIVE FirstDot(_, _)
FirstDot(s, i) ==
    IF i > Len(s) THEN 0
    ELSE IF SubSeq(s, i, i) = "." THEN i
    ELSE FirstDot(s, i + 1)

\* filter_item.split(".")[0]: the name up to its first dot, the whole name
\* if it has no dot
InstrOf(filter) ==
    IF FirstDot(filter, 1) = 0 THEN filter
    ELSE SubSeq(filter, 1, FirstDot(filter, 1) - 1)

(***************************************************************************)
(* The collaborators the constructor reads: the model grid (ReadModel),    *)
(* the object data (ReadObject).                                           *)
(***************************************************************************)
\* ReadModel.get_parameters(): the grid parameters in the order of the grid
GridParameters == <<"teff", "logg">>

\* ReadModel.get_bounds(): the extent of the grid, in the grid's order.  The
\* grid is that of the test data, teff (2000.0, 2500.0) and logg (2.5, 5.5):
\* teff is counted in steps of 250 K from 1750 K, logg in steps of 0.5 dex
\* from 2.0
GridBounds == << <<"teff", Pair(1, 3)>>, <<"logg", Pair(1, 7)>> >>

\* ReadObject.get_parallax(): (value, uncertainty)
ObjParallax == Pair(10, 1)

\* ReadObject.list_filters()
ObjFilters == <<"NACO.H">>

\* One item of ReadObject.get_spectrum(): the tuple (spectrum, covariance,
\* inverted covariance, resolution), of which cov says that the covariance
\* is not None and inv that the inverted covariance is not None
SpecData(cov, inv) == [cov |-> cov, inv |-> inv]

\* ReadObject.get_spectrum() of the object of the test data: SPHERE without
\* and GPI with a covariance matrix and its inverse
ObjSpectrum == << <<"SPHERE", SpecData(FALSE, FALSE)>>, <<"GPI", SpecData(TRUE, TRUE)>> >>

\* ReadObject.get_spectrum().keys()
ObjSpectra == Keys(ObjSpectrum)

\* self.spectrum[name][1] is not None: the data come with a covariance matrix
HasCov(o, spec) == Get(o.object, spec).cov

\* self.spectrum[name][2] is not None: the data come with the inverse of a
\* covariance matrix
HasInvCov(o, spec) == Get(o.object, spec).inv

NonInterpModel == {"planck", "powerlaw"}

Bool(b) == [t |-> "bool", b |-> b]

(***************************************************************************)
(* FitModel.__init__, step by step.  Every step takes the object under     *)
(* construction and returns it after the step; once exc is set, the        *)
(* exception has left the constructor and the later steps do nothing.      *)
(***************************************************************************)
Raise(st, e) == [st EXCEPT !.exc = e]

\* The local variable bounds of __init__: the same dict object as
\* self.bounds, unless self.bounds was rebound to a new dict.
ArgBounds(st) == IF st.aliased THEN st.bounds ELSE st.arg

\* not inc_phot / not inc_spec
Falsy(inc) == IF inc.t = "bool" THEN ~inc.b ELSE Len(inc.items) = 0

NewObject(c) ==
    [ exc |-> "", model |-> c.model, binary |-> FALSE,
      n_planck |-> 0, n_disk |-> 0,
      bounds |-> c.bounds, bounds_none |-> c.bounds_none,
      arg |-> c.bounds, aliased |-> TRUE, object |-> c.object,
      normal_prior |-> c.normal_prior,
      fit_corr |-> c.fit_corr, ext_filter |-> c.ext_filter,
      teff_range |-> Get(GridBounds, "teff"),
      modelpar |-> <<>>, inc_phot |-> <<>>, inc_spec |-> <<>>,
      filter_name |-> <<>>, spectrum |-> <<>>,
      n_corr_par |-> 0, param_interp |-> None, cross_sections |-> "None",
      flux_ratio |-> <<>>, fix_param |-> EmptyDict, cube_index |-> EmptyDict,
      weights |-> EmptyDict, runs |-> 0, overwritten |-> {} ]

CheckArguments(c, st) ==
    IF Falsy(c.inc_phot) /\ Falsy(c.inc_spec) THEN Raise(st, "ValueError")
    ELSE IF c.model = "planck" /\ c.bounds_none THEN Raise(st, "TypeError")
    ELSE IF c.model = "planck" /\ (~Has(c.bounds, "teff") \/ ~Has(c.bounds, "radius"))
         THEN Raise(st, "ValueError")
    ELSE st

Min(a, b) == IF a < b THEN a ELSE b

Max(a, b) == IF a > b THEN a ELSE b

RECURSIVE TeffMin(_)
TeffMin(items) ==
    IF Len(items) = 1 THEN Head(items).lo ELSE Min(Head(items).lo, TeffMin(Tail(items)))

RECURSIVE TeffMax(_)
TeffMax(items) ==
    IF Len(items) = 1 THEN Head(items).hi ELSE Max(Head(items).hi, TeffMax(Tail(items)))

SetTeffRange(st) ==
    IF st.exc # "" THEN st
    ELSE IF st.bounds_none THEN Raise(st, "TypeError")
    ELSE IF ~Has(st.bounds, "teff") THEN st
    ELSE LET v == Get(st.bounds, "teff")
         IN IF IsNone(v) THEN Raise(st, "TypeError")
            ELSE IF Short(v, 1) THEN Raise(st, "IndexError")
            ELSE IF FirstIsTuple(v)
            THEN IF \E i \in 1..Len(v.items) : IsNone(v.items[i])
                 THEN Raise(st, "TypeError")
                 ELSE [st EXCEPT !.teff_range = Pair(TeffMin(v.items), TeffMax(v.items))]
            ELSE IF v.t = "pair" THEN (IF v.lo # v.hi THEN [st EXCEPT !.teff_range = v] ELSE st)
            ELSE IF Short(v, 2) THEN Raise(st, "IndexError")
            ELSE IF Item(v, 0) # Item(v, 1) THEN [st EXCEPT !.teff_range = v]
            ELSE st

\* The loop "for teff_idx in range(len(bounds["teff"]))" of lines 568-573
\* from its i-th pass on: the two names are appended, the bound of teff_i is
\* set, and then that of radius_i, whose subscript raises if the list of the
\* radii is the shorter one.
RECURSIVE PlanckLoop(_, _, _, _)
PlanckLoop(st, i, teff, radius) ==
    IF st.exc # "" \/ i >= Len(teff.items) THEN st
    ELSE LET s1 == [st EXCEPT
                       !.modelpar = st.modelpar \o <<Sfx("teff", i), Sfx("radius", i)>>,
                       !.bounds = Put(st.bounds, Sfx("teff", i), Item(teff, i))]
         IN IF i >= Len(radius.items) THEN Raise(s1, "IndexError")
            ELSE PlanckLoop([s1 EXCEPT !.bounds = Put(s1.bounds, Sfx("radius", i),
                                                      Item(radius, i))],
                            i + 1, teff, radius)

\* Lines 559-581: the blackbody components.  With lists, self.bounds is a
\* new dict from line 566 on.
SetPlanckParameters(st) ==
    LET teff == Get(st.bounds, "teff")
        radius == Get(st.bounds, "radius")
    IN IF IsList(teff) /\ IsList(radius)
       THEN LET s1 == PlanckLoop([st EXCEPT !.n_planck = Len(teff.items),
                                            !.modelpar = <<>>,
                                            !.bounds = EmptyDict,
                                            !.arg = st.bounds, !.aliased = FALSE],
                                 0, teff, radius)
            IN IF s1.exc # "" THEN s1
               ELSE [s1 EXCEPT !.modelpar = Append(s1.modelpar, "parallax")]
       ELSE [st EXCEPT !.n_planck = 1, !.modelpar = <<"teff", "radius", "parallax">>]

SetPowerlawParameters(st) ==
    [st EXCEPT !.modelpar = <<"log_powerlaw_a", "log_powerlaw_b", "log_powerlaw_c">>]

\* The lower and the upper bound of self.bounds[name] are moved into the
\* extent g of the grid (lines 612-639 and 643-673).  A bound that is None
\* cannot be subscripted, an empty tuple or list has no item 0, and an item
\* 0 that is None, a tuple or a list cannot be compared with a float.
ClipToGrid(st, name, g) ==
    LET v == Get(st.bounds, name)
    IN IF IsNone(v) THEN Raise(st, "TypeError")
       ELSE IF Short(v, 1) THEN Raise(st, "IndexError")
       ELSE IF v.t # "pair" THEN Raise(st, "TypeError")
       ELSE LET lo == IF v.lo < g.lo THEN g.lo ELSE v.lo
                hi == IF v.hi > g.hi THEN g.hi ELSE v.hi
            IN [st EXCEPT !.bounds = Put(st.bounds, name, Pair(lo, hi))]

\* if self.binary: for i in range(2): ... self.bounds[f"{key}_{i}"] ...
ClipBinary(st, key, g) ==
    IF st.exc # "" \/ ~st.binary THEN st
    ELSE IF ~Has(st.bounds, Sfx(key, 0)) THEN Raise(st, "KeyError")
    ELSE LET s0 == ClipToGrid(st, Sfx(key, 0), g)
         IN IF s0.exc # "" THEN s0
            ELSE IF ~Has(s0.bounds, Sfx(key, 1)) THEN Raise(s0, "KeyError")
            ELSE ClipToGrid(s0, Sfx(key, 1), g)

\* One pass of the loop "for key, value in bounds_grid.items()".  The
\* statements of lines 600-603 run one by one: with a single tuple in the
\* list, self.binary and the bound of key_0 are set before value[1] raises.
GridKeyStep(st, key, g) ==
    IF st.exc # "" THEN st
    ELSE LET first ==
             IF ~Has(st.bounds, key) \/ IsNone(Get(st.bounds, key))
             THEN [st EXCEPT !.bounds = Put(st.bounds, key, g)]
             ELSE LET v == Get(st.bounds, key)
                  IN IF Short(v, 1) THEN Raise(st, "IndexError")
                     ELSE IF FirstIsTuple(v)
                     THEN IF Short(v, 2)
                          THEN Raise([st EXCEPT !.binary = TRUE,
                                         !.bounds = Put(st.bounds, Sfx(key, 0), Item(v, 0))],
                                     "IndexError")
                          ELSE [st EXCEPT !.binary = TRUE,
                                   !.bounds = DelKey(Put(Put(st.bounds, Sfx(key, 0), Item(v, 0)),
                                                         Sfx(key, 1), Item(v, 1)), key)]
                     ELSE IF NoneThenShort(v) THEN Raise(st, "IndexError")
                     ELSE IF BothNone(v)
                     THEN [st EXCEPT !.binary = TRUE,
                              !.bounds = DelKey(Put(Put(st.bounds, Sfx(key, 0), g),
                                                    Sfx(key, 1), g), key)]
                     ELSE ClipToGrid(st, key, g)
         IN ClipBinary(first, key, g)

RECURSIVE GridLoop(_, _)
GridLoop(st, i) ==
    IF i > Len(GridBounds) THEN st
    ELSE GridLoop(GridKeyStep(st, GridBounds[i][1], GridBounds[i][2]), i + 1)

\* Lines 587-680: the bounds of the grid parameters and the start of modelpar.
SetGridParameters(st) ==
    LET s1 == GridLoop(st, 1)
    IN IF s1.exc # "" THEN s1 ELSE [s1 EXCEPT !.modelpar = GridParameters]

AppendPar(st, name) == [st EXCEPT !.modelpar = Append(st.modelpar, name)]

\* self.bounds[key] = (value[0], value[1]) split into key_0 and key_1, and
\* the two names appended to modelpar when register is TRUE.  The names are
\* appended first, then key_0 is set, then key_1, then key is deleted: with
\* a single tuple, value[1] raises after the names and key_0 are in place.
SplitBound(st, key, register) ==
    LET v == Get(st.bounds, key)
        named == IF register THEN st.modelpar \o <<Sfx(key, 0), Sfx(key, 1)>>
                 ELSE st.modelpar
        b0 == Put(st.bounds, Sfx(key, 0), Item(v, 0))
    IN IF Short(v, 2)
       THEN Raise([st EXCEPT !.modelpar = named, !.bounds = b0], "IndexError")
       ELSE [st EXCEPT !.modelpar = named,
                       !.bounds = DelKey(Put(b0, Sfx(key, 1), Item(v, 1)), key)]

\* Lines 696-702 and 710-716: a tuple of two bounds is split for the two stars
SplitForStars(st, key) ==
    IF st.exc # "" \/ ~Has(st.bounds, key) THEN st
    ELSE IF IsNone(Get(st.bounds, key)) THEN Raise(st, "TypeError")
    ELSE IF Short(Get(st.bounds, key), 1) THEN Raise(st, "IndexError")
    ELSE IF FirstIsTuple(Get(st.bounds, key)) THEN SplitBound(st, key, TRUE)
    ELSE st

\* Lines 704-708: a parallax of one star with a normal prior
PriorParallax(st, name) ==
    IF st.exc = "" /\ Has(st.normal_prior, name) THEN AppendPar(st, name) ELSE st

\* Lines 695-716: parallax and ISM extinction of the two stars.
SetBinaryParallax(st) ==
    IF ~st.binary THEN st
    ELSE SplitForStars(
             PriorParallax(PriorParallax(SplitForStars(st, "parallax"), "parallax_0"),
                           "parallax_1"),
             "ism_ext")

\* Lines 718-722 with the parallax put in front of the last name
AppendParallaxBeforeLast(st) ==
    IF st.exc # "" THEN st
    ELSE IF ~InList(st.modelpar, "parallax_0") \/ ~InList(st.modelpar, "parallax_1")
    THEN [st EXCEPT !.modelpar = SubSeq(st.modelpar, 1, Len(st.modelpar) - 1)
                                 \o <<"parallax", st.modelpar[Len(st.modelpar)]>>]
    ELSE st

\* Lines 718-722
AppendParallax(st) ==
    IF st.exc # "" THEN st
    ELSE IF ~InList(st.modelpar, "parallax_0") \/ ~InList(st.modelpar, "parallax_1")
    THEN AppendPar(st, "parallax")
    ELSE st

\* Lines 724-725
SetFluxOffset(st) ==
    IF st.exc = "" /\ Has(st.bounds, "flux_offset") THEN AppendPar(st, "flux_offset") ELSE st

\* Lines 682-725: flux scaling, or radius and parallax; the flux offset.
SetScaling(st) ==
    IF st.exc # "" THEN st
    ELSE SetFluxOffset(
             IF Has(st.bounds, "flux_scaling") THEN AppendPar(st, "flux_scaling")
             ELSE IF Has(st.bounds, "log_flux_scaling") THEN AppendPar(st, "log_flux_scaling")
             ELSE AppendParallax(SetBinaryParallax(AppendPar(st, "radius"))))

\* (0.5, 5.0) R_J, in units of 0.5 R_J
DefaultRadiusBound == Pair(1, 10)

\* Lines 729-740: the bounds of the radius.
SetRadiusBound(st) ==
    IF st.exc # "" THEN st
    ELSE IF st.binary
    THEN IF Has(st.bounds, "radius")
         THEN IF IsNone(Get(st.bounds, "radius")) THEN Raise(st, "TypeError")
              ELSE IF Short(Get(st.bounds, "radius"), 1) THEN Raise(st, "IndexError")
              ELSE IF FirstIsTuple(Get(st.bounds, "radius"))
              THEN SplitBound(st, "radius", FALSE)
              ELSE st
         ELSE [st EXCEPT !.bounds = Put(st.bounds, "radius", DefaultRadiusBound)]
    ELSE IF ~Has(st.bounds, "radius") /\ InList(st.modelpar, "radius")
    THEN [st EXCEPT !.bounds = Put(st.bounds, "radius", DefaultRadiusBound)]
    ELSE st

\* One pass of the loop of lines 754-764 and the passes after it: the two
\* names are appended, the bound of disk_teff_i is set, and then the bound
\* of disk_radius_i, whose subscript raises if disk_radius is the shorter list.
RECURSIVE DiskLoop(_, _, _, _)
DiskLoop(st, i, teff, radius) ==
    IF st.exc # "" \/ i >= Len(teff.items) THEN st
    ELSE LET s1 == [st EXCEPT
                       !.modelpar = st.modelpar
                                    \o <<Sfx("disk_teff", i), Sfx("disk_radius", i)>>,
                       !.bounds = Put(st.bounds, Sfx("disk_teff", i), Item(teff, i))]
         IN IF i >= Len(radius.items) THEN Raise(s1, "IndexError")
            ELSE DiskLoop([s1 EXCEPT !.bounds = Put(s1.bounds, Sfx("disk_radius", i),
                                                    Item(radius, i))],
                          i + 1, teff, radius)

\* Lines 744-775: the blackbody disk components.
SetDisk(st) ==
    IF st.exc # "" THEN st
    ELSE IF Has(st.bounds, "disk_teff") /\ Has(st.bounds, "disk_radius")
    THEN LET teff == Get(ArgBounds(st), "disk_teff")
             radius == Get(ArgBounds(st), "disk_radius")
         IN IF IsList(teff) /\ IsList(radius)
            THEN LET s1 == DiskLoop([st EXCEPT !.n_disk = Len(teff.items)], 0, teff, radius)
                 IN IF s1.exc # "" THEN s1
                    ELSE [s1 EXCEPT !.bounds = DelKey(DelKey(s1.bounds, "disk_teff"),
                                                      "disk_radius")]
            ELSE [st EXCEPT !.n_disk = 1,
                            !.modelpar = st.modelpar \o <<"disk_teff", "disk_radius">>]
    ELSE st

\* One pass of the loop "for key in bounds" of lines 782-786.
RenameBinary(modelpar, key) ==
    IF InList(modelpar, StripLast2(key))
    THEN LET par_index == IndexOf(modelpar, StripLast2(key))
             renamed == [modelpar EXCEPT ![par_index] = StripLast2(key) \o "_0"]
         IN InsertAt(renamed, par_index, StripLast2(key) \o "_1")
    ELSE modelpar

RECURSIVE RenameLoop(_, _, _)
RenameLoop(modelpar, keys, i) ==
    IF i > Len(keys) THEN modelpar
    ELSE RenameLoop(RenameBinary(modelpar, keys[i]), keys, i + 1)

\* Lines 779-796: the parameters of the two components; spec_weight.
UpdateBinary(st) ==
    IF st.exc # "" \/ ~st.binary THEN st
    ELSE LET s1 == [st EXCEPT !.modelpar = RenameLoop(st.modelpar, Keys(ArgBounds(st)), 1)]
         IN IF InList(s1.modelpar, "radius")
            THEN [s1 EXCEPT !.modelpar = Append(s1.modelpar, "spec_weight"),
                            !.bounds = IF Has(s1.bounds, "spec_weight") THEN s1.bounds
                                       ELSE Put(s1.bounds, "spec_weight", Pair(0, 1))]
            ELSE s1

\* Lines 558-796: the model parameters and their bounds.
SetModelParameters(st) ==
    IF st.exc # "" THEN st
    ELSE IF st.model = "planck" THEN SetPlanckParameters(st)
    ELSE IF st.model = "powerlaw" THEN SetPowerlawParameters(st)
    ELSE UpdateBinary(SetDisk(SetRadiusBound(SetScaling(SetGridParameters(st)))))

\* Lines 810-833: the selected filters and spectra.
SelectData(c, st) ==
    IF st.exc # "" THEN st
    ELSE LET phot == IF c.inc_phot.t = "bool"
                     THEN (IF c.inc_phot.b THEN ObjFilters ELSE <<>>)
                     ELSE c.inc_phot.items
             spec == IF c.inc_spec.t = "bool"
                     THEN (IF c.inc_spec.b THEN Keys(c.object) ELSE <<>>)
                     ELSE c.inc_spec.items
         IN [st EXCEPT !.inc_phot = phot,
                       !.inc_spec = IF Len(spec) > 0 /\ st.model = "powerlaw" THEN <<>> ELSE spec]

\* One pass of the loop "for filter_item in inc_phot" of lines 847-877.
IncludeFilter(st, filter_item) ==
    LET s1 == IF Has(st.bounds, filter_item \o "_error")
              THEN AppendPar(st, filter_item \o "_error")
              ELSE IF Has(st.bounds, InstrOf(filter_item) \o "_error")
                      /\ ~InList(st.modelpar, InstrOf(filter_item) \o "_error")
              THEN AppendPar(st, InstrOf(filter_item) \o "_error")
              ELSE st
    IN [s1 EXCEPT !.filter_name = Append(s1.filter_name, filter_item)]

RECURSIVE PhotLoop(_, _)
PhotLoop(st, i) ==
    IF i > Len(st.inc_phot) THEN st ELSE PhotLoop(IncludeFilter(st, st.inc_phot[i]), i + 1)

\* Lines 835-877
IncludePhotometry(st) == IF st.exc # "" THEN st ELSE PhotLoop(st, 1)

\* One pass of the loop "for spec_item in self.spectrum" of lines 897-928.
IncludeCorrelation(st, spec_item) ==
    IF ~InList(st.fit_corr, spec_item) THEN st
    ELSE IF HasCov(st, spec_item)
    THEN [st EXCEPT !.fit_corr = RemoveFirst(st.fit_corr, spec_item)]
    ELSE LET len == "corr_len_" \o spec_item
             amp == "corr_amp_" \o spec_item
             b1 == IF Has(st.bounds, len) THEN st.bounds ELSE Put(st.bounds, len, Pair(-3, 0))
             b2 == IF Has(b1, amp) THEN b1 ELSE Put(b1, amp, Pair(0, 1))
         IN [st EXCEPT !.modelpar = st.modelpar \o <<len, amp>>,
                       !.bounds = b2,
                       !.n_corr_par = st.n_corr_par + 2]

RECURSIVE CorrLoop(_, _)
CorrLoop(st, i) ==
    IF i > Len(st.spectrum) THEN st
    ELSE CorrLoop(IncludeCorrelation(st, st.spectrum[i]), i + 1)

\* Lines 879-951
IncludeSpectra(st) ==
    IF st.exc # "" THEN st
    ELSE IF Len(st.inc_spec) > 0
    THEN LET keep(x) == InList(st.inc_spec, x)
         IN CorrLoop([st EXCEPT !.spectrum = SelectSeq(Keys(st.object), keep)], 1)
    ELSE st

RECURSIVE PerSpectrum(_, _, _)
PerSpectrum(st, prefix, i) ==
    IF i > Len(st.spectrum) THEN st
    ELSE PerSpectrum(IF Has(st.bounds, prefix \o st.spectrum[i])
                     THEN AppendPar(st, prefix \o st.spectrum[i]) ELSE st,
                     prefix, i + 1)

\* Lines 953-977: "vsini" and "rad_vel", for all spectra or for each of them.
\* The name is appended before the bound is read.
SetBroadening(st, name) ==
    IF st.exc # "" THEN st
    ELSE IF Has(st.bounds, name)
    THEN IF ~Has(ArgBounds(st), name) THEN Raise(AppendPar(st, name), "KeyError")
         ELSE LET v == Get(ArgBounds(st), name)
              IN IF IsNone(v) THEN Raise(AppendPar(st, name), "TypeError")
                 ELSE IF Short(v, 2) THEN Raise(AppendPar(st, name), "IndexError")
                 ELSE [st EXCEPT !.modelpar = Append(st.modelpar, name),
                                 !.bounds = Put(st.bounds, name,
                                                FirstTwo(v))]
    ELSE PerSpectrum(st, name \o "_", 1)

RECURSIVE InterpNames(_, _)
InterpNames(modelpar, names) ==
    IF Len(names) = 0 THEN <<>>
    ELSE (IF InList(modelpar, Sfx(Head(names), 0)) /\ InList(modelpar, Sfx(Head(names), 1))
          THEN <<Sfx(Head(names), 0), Sfx(Head(names), 1)>>
          ELSE <<Head(names)>>) \o InterpNames(modelpar, Tail(names))

\* Lines 979-995: the order of the parameters of the grid interpolation.
SetParamInterp(st) ==
    IF st.exc # "" \/ st.model \in NonInterpModel THEN st
    ELSE [st EXCEPT !.param_interp =
             List(IF st.binary THEN InterpNames(st.modelpar, GridParameters)
                  ELSE GridParameters)]

\* The exception of (x[0], x[1]), "" if there is none: a number, a bool or
\* None cannot be subscripted, a sequence of fewer than two items is too short
PairExc(x) ==
    IF x.t = "pair" THEN ""
    ELSE IF x.t \in {"tuple", "list"} THEN (IF Short(x, 2) THEN "IndexError" ELSE "")
    ELSE "TypeError"

\* self.bounds[name][1] < 0.0 raises: the upper bound is None or a sequence
UpperExc(x) ==
    IF x.t = "pair" \/ Item(x, 1).t = "bool" THEN "" ELSE "TypeError"

\* The name is appended to modelpar, then (x[0], x[1]) is read and stored
AddCalibPar(st, name, x) ==
    IF PairExc(x) # "" THEN Raise(AppendPar(st, name), PairExc(x))
    ELSE [st EXCEPT !.modelpar = Append(st.modelpar, name),
                    !.bounds = Put(st.bounds, name, FirstTwo(x))]

\* One pass of the loop "for spec_item in self.spectrum" of lines 1018-1055.
\* The statements run one by one, so that an exception leaves the names and
\* bounds of the statements before it in place.
Calibrate(st, spec_item) ==
    IF st.exc # "" THEN st
    ELSE IF ~st.bounds_none /\ Has(ArgBounds(st), spec_item)
    THEN LET v == Get(ArgBounds(st), spec_item)
         IN IF v.t = "pair" THEN Raise(AppendPar(st, "scaling_" \o spec_item), "TypeError")
            ELSE IF v.t \notin {"tuple", "list"} THEN Raise(st, "TypeError")
            ELSE IF Short(v, 1) THEN Raise(st, "IndexError")
            ELSE LET s1 == IF ~IsNone(Item(v, 0))
                           THEN AddCalibPar(st, "scaling_" \o spec_item, Item(v, 0))
                           ELSE st
                     s2 == IF s1.exc = "" /\ Len(v.items) > 1 /\ ~IsNone(Item(v, 1))
                           THEN LET s == AddCalibPar(s1, "error_" \o spec_item, Item(v, 1))
                                IN IF s.exc = "" /\ UpperExc(Item(v, 1)) # ""
                                   THEN Raise(s, UpperExc(Item(v, 1)))
                                   ELSE s
                           ELSE s1
                 IN IF s2.exc # "" THEN s2
                    ELSE [s2 EXCEPT !.bounds = DelKey(s2.bounds, spec_item)]
    ELSE st

RECURSIVE CalibLoop(_, _)
CalibLoop(st, i) ==
    IF i > Len(st.spectrum) THEN st ELSE CalibLoop(Calibrate(st, st.spectrum[i]), i + 1)

\* Lines 1018-1055
SetCalibration(st) == CalibLoop(st, 1)


\* np.log10 on the powers of ten; np.log10(0) is -inf (with a RuntimeWarning)
Log10(x) == CASE x = 0 -> MinusInf [] x = 1 -> 0 [] x = 10 -> 1 [] x = 100 -> 2 [] x = 1000 -> 3

\* A NumPy array
Array(items) == [t |-> "array", items |-> items]

\* np.log10(x) of an item x that is itself a sequence: the array of the
\* logarithms, taken element by element (x is a (lo, hi) tuple, or a tuple or
\* list of such tuples)
LogItem(x) ==
    IF x.t = "pair" THEN Array(<<Log10(x.lo), Log10(x.hi)>>)
    ELSE Array([i \in 1..Len(x.items) |->
                   Array(<<Log10(x.items[i].lo), Log10(x.items[i].hi)>>)])

\* self.bounds[name] = (np.log10(lo), np.log10(hi))
\* (np.log10 of None is a TypeError, a subscript beyond the end an IndexError,
\* and of a tuple of numbers np.log10 is taken element by element)
LogBound(st, name) ==
    LET v == Get(st.bounds, name)
        \* np.log10(x) raises: x is None, or a sequence with None in it
        nolog(x) == IsNone(x) \/ (x.t \in {"tuple", "list"}
                                  /\ \E i \in 1..Len(x.items) : IsNone(x.items[i]))
    IN IF IsNone(v) THEN Raise(st, "TypeError")
       ELSE IF v.t = "pair"
       THEN [st EXCEPT !.bounds = Put(st.bounds, name, Pair(Log10(v.lo), Log10(v.hi)))]
       ELSE IF Short(v, 1) THEN Raise(st, "IndexError")
       ELSE IF nolog(v.items[1]) THEN Raise(st, "TypeError")
       ELSE IF Short(v, 2) THEN Raise(st, "IndexError")
       ELSE IF nolog(v.items[2]) THEN Raise(st, "TypeError")
       ELSE [st EXCEPT !.bounds = Put(st.bounds, name,
                                      Tup(LogItem(v.items[1]), LogItem(v.items[2])))]

\* Lines 1057-1101: the parameters of one extinction model.
SetExtinction(st) ==
    IF st.exc # "" THEN st
    ELSE IF Has(st.bounds, "lognorm_radius") /\ Has(st.bounds, "lognorm_sigma")
            /\ Has(st.bounds, "lognorm_ext")
    THEN LogBound([st EXCEPT !.cross_sections = "lognorm",
                             !.modelpar = st.modelpar
                                 \o <<"lognorm_radius", "lognorm_sigma", "lognorm_ext">>],
                  "lognorm_radius")
    ELSE IF Has(st.bounds, "powerlaw_max") /\ Has(st.bounds, "powerlaw_exp")
            /\ Has(st.bounds, "powerlaw_ext")
    THEN LogBound([st EXCEPT !.cross_sections = "powerlaw",
                             !.modelpar = st.modelpar
                                 \o <<"powerlaw_max", "powerlaw_exp", "powerlaw_ext">>],
                  "powerlaw_max")
    ELSE IF Has(st.bounds, "ism_ext") \/ Has(st.normal_prior, "ism_ext")
    THEN LET s1 == IF st.ext_filter # "None"
                   THEN IF ~Has(st.bounds, "ism_ext")
                        THEN Raise(AppendPar(st, "phot_ext_" \o st.ext_filter), "KeyError")
                        ELSE [st EXCEPT
                                 !.modelpar = Append(st.modelpar, "phot_ext_" \o st.ext_filter),
                                 !.bounds = DelKey(Put(st.bounds, "phot_ext_" \o st.ext_filter,
                                                       Get(st.bounds, "ism_ext")), "ism_ext")]
                   ELSE AppendPar(st, "ism_ext")
         IN IF s1.exc = "" /\ (Has(s1.bounds, "ism_red") \/ Has(s1.normal_prior, "ism_red"))
            THEN AppendPar(s1, "ism_red")
            ELSE s1
    ELSE st

\* Lines 1103-1112
SetVeiling(st) ==
    IF st.exc # "" THEN st
    ELSE LET s1 == IF Has(st.bounds, "veil_a") THEN AppendPar(st, "veil_a") ELSE st
             s2 == IF Has(s1.bounds, "veil_b") THEN AppendPar(s1, "veil_b") ELSE s1
         IN IF Has(s2.bounds, "veil_ref") THEN AppendPar(s2, "veil_ref") ELSE s2

\* param_item[:6] == "ratio_"
IsRatioKey(k) == Len(k) >= 6 /\ SubSeq(k, 1, 6) = "ratio_"

\* param_item[6:]
RatioFilter(k) == IF Len(k) <= 6 THEN "" ELSE SubSeq(k, 7, Len(k))

\* Lines 1114-1135: the filters of the flux ratio priors, in the order in
\* which self.flux_ratio gets them.
SetFluxRatio(st) ==
    IF st.exc # "" THEN st
    ELSE LET fromBounds == SelectSeq(Keys(st.bounds), IsRatioKey)
             fromPrior == SelectSeq(Keys(st.normal_prior), IsRatioKey)
             fresh(k) == ~InList(fromBounds, k)
             keys == fromBounds \o SelectSeq(fromPrior, fresh)
         IN [st EXCEPT !.flux_ratio = [i \in 1..Len(keys) |-> RatioFilter(keys[i])]]

\* The exception of the condition of line 1143, "" if there is none: None
\* cannot be subscripted (TypeError), a tuple or list of fewer than two items
\* has no value[0] or value[1] (IndexError), and the comparison of two arrays
\* is an array, which has no truth value (ValueError)
FixExc(v) ==
    IF v.t = "pair" THEN ""
    ELSE IF v.t \notin {"tuple", "list"} THEN "TypeError"
    ELSE IF Short(v, 2) THEN "IndexError"
    ELSE IF Item(v, 0).t = "array" \/ Item(v, 1).t = "array" THEN "ValueError"
    ELSE ""

\* value[0] == value[1] and value[0] is not None and value[1] is not None
IsFixedBound(v) ==
    IF v.t = "pair" THEN v.lo = v.hi
    ELSE Item(v, 0) = Item(v, 1) /\ ~IsNone(Item(v, 0))

\* value[0]
FixedValue(v) == IF v.t = "pair" THEN v.lo ELSE Item(v, 0)

\* The loop "for item in del_param" of lines 1150-1154.
RECURSIVE RemoveFixed(_, _, _)
RemoveFixed(st, del_param, i) ==
    IF st.exc # "" \/ i > Len(del_param) THEN st
    ELSE IF ~InList(st.modelpar, del_param[i]) THEN Raise(st, "ValueError")
    ELSE RemoveFixed([st EXCEPT !.modelpar = RemoveFirst(st.modelpar, del_param[i]),
                                !.bounds = DelKey(st.bounds, del_param[i])],
                     del_param, i + 1)

\* The loop "for key, value in self.bounds.items()" of lines 1142-1145 from
\* its i-th pass on: an exception leaves the parameters fixed so far in
\* self.fix_param.
RECURSIVE FixLoop(_, _)
FixLoop(st, i) ==
    IF i > Len(st.bounds) THEN st
    ELSE LET key == st.bounds[i][1]
             value == st.bounds[i][2]
         IN IF FixExc(value) # "" THEN Raise(st, FixExc(value))
            ELSE FixLoop(IF IsFixedBound(value)
                         THEN [st EXCEPT !.fix_param = Put(st.fix_param, key,
                                                           FixedValue(value))]
                         ELSE st,
                         i + 1)

\* Lines 1137-1154: the parameters with lo == hi are fixed.
SetFixed(st) ==
    IF st.exc # "" THEN st
    ELSE LET s1 == FixLoop([st EXCEPT !.fix_param = EmptyDict], 1)
         IN IF s1.exc # "" THEN s1 ELSE RemoveFixed(s1, Keys(s1.fix_param), 1)

\* Lines 1161-1168: the normal prior of the parallax.
SetParallaxPrior(st) ==
    IF st.exc # "" THEN st
    ELSE IF InList(st.modelpar, "parallax") /\ ~Has(st.fix_param, "parallax")
            /\ ~Has(st.bounds, "parallax")
    THEN [st EXCEPT !.normal_prior = Put(st.normal_prior, "parallax", ObjParallax)]
    ELSE st

\* The exception of lines 1180-1187 for one value of self.normal_prior, ""
\* if there is none: param_value[0] is compared with -0.1 and 0.1, and
\* param_value[0] and param_value[1] are printed as floats.  None cannot be
\* subscripted (TypeError), an empty tuple or list has no item 0
\* (IndexError), an array compared with a float has no truth value
\* (ValueError), and None, a tuple or a list is not ordered with a float
\* (TypeError)
PrintExc(v) ==
    IF v.t = "pair" THEN ""
    ELSE IF v.t \notin {"tuple", "list"} THEN "TypeError"
    ELSE IF Short(v, 1) THEN "IndexError"
    ELSE IF Item(v, 0).t = "array" THEN "ValueError"
    ELSE "TypeError"

\* Lines 1170-1187: the priors are printed, the normal priors in the order
\* of self.normal_prior; the first value that is no (mean, sigma) pair ends
\* the constructor.
PrintPriors(st) ==
    IF st.exc # "" THEN st
    ELSE LET bad == { i \in 1..Len(st.normal_prior) :
                          PrintExc(st.normal_prior[i][2]) # "" }
         IN IF bad = {} THEN st
            ELSE Raise(st, PrintExc(st.normal_prior[
                               CHOOSE i \in bad : \A j \in bad : i <= j][2]))

RECURSIVE EnumerateInto(_, _, _)
EnumerateInto(d, modelpar, i) ==
    IF i > Len(modelpar) THEN d
    ELSE EnumerateInto(Put(d, modelpar[i], i - 1), modelpar, i + 1)

\* Lines 1189-1193: for i, item in enumerate(self.modelpar)
SetCubeIndex(st) ==
    IF st.exc # "" THEN st
    ELSE [st EXCEPT !.cube_index = EnumerateInto(EmptyDict, st.modelpar, 1)]

RECURSIVE WeightOne(_, _, _)
WeightOne(d, names, i) ==
    IF i > Len(names) THEN d ELSE WeightOne(Put(d, names[i], 1), names, i + 1)

\* The loop "for spec_item in inc_spec" of lines 1235-1238 from its i-th pass
\* on: self.spectrum[spec_item] raises KeyError for a name that is no
\* spectrum of the object, after the weights of the names before it are set
RECURSIVE WeightSpectra(_, _)
WeightSpectra(st, i) ==
    IF i > Len(st.inc_spec) THEN st
    ELSE IF ~InList(st.spectrum, st.inc_spec[i]) THEN Raise(st, "KeyError")
    ELSE WeightSpectra([st EXCEPT !.weights = Put(st.weights, st.inc_spec[i], 1)], i + 1)

\* Lines 1199-1242 with apply_weights=False: the weight 1 for every item of
\* inc_spec, which is looked up in self.spectrum, and for every filter
SetWeights(st) ==
    IF st.exc # "" THEN st
    ELSE LET s1 == WeightSpectra([st EXCEPT !.weights = EmptyDict], 1)
         IN IF s1.exc # "" THEN s1
            ELSE [s1 EXCEPT !.weights = WeightOne(s1.weights, st.inc_phot, 1)]

\* A value of the annotation Tuple[float, float]
IsFloatTuple(v) == v.t = "pair"

\* A value of the annotation Optional[Tuple[float, float]]
IsOptFloatTuple(v) == IsNone(v) \/ IsFloatTuple(v)

\* A value of the Union that the annotation of bounds gives for the values
\* of the dictionary (lines 80-96): a (lo, hi) tuple, a tuple of one, two or
\* three items that are None or (lo, hi) tuples, or a list of (lo, hi)
\* tuples.  A tuple is checked in its length and in every item, a list in
\* its first item only.
IsBoundValue(v) ==
    \/ IsFloatTuple(v)
    \/ v.t = "tuple" /\ Len(v.items) \in 1..3
                     /\ \A i \in 1..Len(v.items) : IsOptFloatTuple(v.items[i])
    \/ v.t = "list" /\ (v.items = <<>> \/ IsFloatTuple(v.items[1]))

\* The decorator @typechecked of line 76, which checks the arguments against
\* the annotations of lines 78-103 before the body runs: None is accepted
\* for an Optional, and of a dictionary the first item only is checked.
TypeChecked(c) ==
    /\ c.bounds_none \/ c.bounds = EmptyDict \/ IsBoundValue(c.bounds[1][2])
    /\ c.normal_prior = EmptyDict \/ IsFloatTuple(c.normal_prior[1][2])

\* FitModel.__init__
Constructed(c) ==
    IF ~TypeChecked(c) THEN Raise(NewObject(c), "TypeCheckError") ELSE
    LET s1 == SetModelParameters(SetTeffRange(CheckArguments(c, NewObject(c))))
        s2 == IncludeSpectra(IncludePhotometry(SelectData(c, s1)))
        s3 == SetBroadening(SetBroadening(s2, "vsini"), "rad_vel")
        s4 == SetVeiling(SetExtinction(SetCalibration(SetParamInterp(s3))))
    IN SetWeights(SetCubeIndex(PrintPriors(SetParallaxPrior(SetFixed(SetFluxRatio(s4))))))

(***************************************************************************)
(* FitModel._lnlike_func.  The result is a record: kind is "value" (a      *)
(* finite float), "neginf" (-np.inf), "nan", or "raise" (an exception,     *)
(* named in exc, leaves the function); evals counts the forward-model      *)
(* evaluations made before the return; order_ok tells that the checks of   *)
(* the blackbody temperatures and radii were passed; terms lists the       *)
(* contributions added to ln_like; applied holds the values that were read *)
(* from the vector by params[self.cube_index[name]]; written holds the     *)
(* objects that the call wrote into in place; stale says that the call     *)
(* read an attribute that an earlier call had written into.                *)
(***************************************************************************)
Result(kind, exc, order_ok, evals, terms, applied, written, stale) ==
    [kind |-> kind, exc |-> exc, order_ok |-> order_ok, evals |-> evals, terms |-> terms,
     applied |-> applied, written |-> written, stale |-> stale]

RECURSIVE FromCube(_, _, _)
FromCube(cube_index, params, i) ==
    IF i > Len(cube_index) THEN EmptyDict
    ELSE << <<cube_index[i][1], params[cube_index[i][2] + 1]>> >>
         \o FromCube(cube_index, params, i + 1)

RECURSIVE PutAll(_, _, _)
PutAll(d, extra, i) ==
    IF i > Len(extra) THEN d ELSE PutAll(Put(d, extra[i][1], extra[i][2]), extra, i + 1)

\* Lines 1353-1363: the sampled and the fixed parameters
AllParam(o, params) == PutAll(FromCube(o.cube_index, params, 1), o.fix_param, 1)

\* PlanckChecks without the comparison of the radii
RECURSIVE PlanckChecksTeffOnly(_, _)
PlanckChecksTeffOnly(i, n) ==
    IF i >= n - 1 THEN <<>>
    ELSE << <<Sfx("teff", i + 1), ">", Sfx("teff", i)>> >> \o PlanckChecksTeffOnly(i + 1, n)

RECURSIVE PlanckChecks(_, _)
PlanckChecks(i, n) ==
    IF i >= n - 1 THEN <<>>
    ELSE << <<Sfx("teff", i + 1), ">", Sfx("teff", i)>>,
            <<Sfx("radius", i), ">", Sfx("radius", i + 1)>> >> \o PlanckChecks(i + 1, n)

RECURSIVE DiskChecks(_, _)
DiskChecks(i, n) ==
    IF i >= n THEN <<>>
    ELSE (IF i = 0
          THEN << <<"disk_teff_0", ">", "teff">>, <<"disk_radius_0", "<", "radius">> >>
          ELSE << <<Sfx("disk_teff", i), ">", Sfx("disk_teff", i - 1)>>,
                  <<Sfx("disk_radius", i), "<", Sfx("disk_radius", i - 1)>> >>)
         \o DiskChecks(i + 1, n)

\* Lines 1387-1392: the checks made with one disk component
SingleDiskChecks ==
    << <<"disk_teff", ">", "disk_teff">>, <<"disk_radius", "<", "disk_radius">> >>

\* Lines 1372-1414: the comparisons <<left, operator, right>> in the order in
\* which the code makes them; the sample is rejected when one of them is true.
OrderChecks(o) ==
    (IF o.model = "planck" /\ o.n_planck > 1 THEN PlanckChecks(0, o.n_planck) ELSE <<>>)
    \o (IF o.n_disk = 1 THEN SingleDiskChecks
        ELSE IF o.n_disk > 1 THEN DiskChecks(0, o.n_disk)
        ELSE <<>>)

Compare(a, op, b) == IF op = ">" THEN a > b ELSE a < b

\* "pass", "reject" (return -np.inf) or "KeyError"
RECURSIVE RunChecks(_, _, _)
RunChecks(all_param, checks, i) ==
    IF i > Len(checks) THEN "pass"
    ELSE IF ~Has(all_param, checks[i][1]) \/ ~Has(all_param, checks[i][3]) THEN "KeyError"
    ELSE IF Compare(Get(all_param, checks[i][1]), checks[i][2], Get(all_param, checks[i][3]))
    THEN "reject"
    ELSE RunChecks(all_param, checks, i + 1)

(***************************************************************************)
(* The data and the forward model that _lnlike_func reads.                 *)
(***************************************************************************)
\* self.spectrum[name][0][:, 0]: the wavelengths of the pixels.  The SPHERE
\* spectrum holds the same wavelength twice (two overlapping exposures).
SpecWavel(spec) == IF spec = "SPHERE" THEN <<1, 1>> ELSE <<1, 2>>

\* self.spectrum[name][0][:, 2]: the uncertainties of the pixels
SpecSigma(spec) == <<1, 1>>

\* self.spectrum[name][1]: the covariance matrix that comes with the data
SpecCov(spec) == << <<1, 0>>, <<0, 1>> >>

\* The flux of a pixel of the model spectrum where the forward model gives a number
ModelFlux == 1

Det2(m) == m[1][1] * m[2][2] - m[1][2] * m[2][1]

\* The kernel is counted in thousandths
KernelUnit == 1000

\* np.exp(-((wavel_i - wavel_j) ** 2) / (2.0 * corr_len**2)) with
\* corr_len = 10.0 ** log_len, in thousandths (the digits after the third
\* are cut): 1 for equal wavelengths; for wavelengths 1 apart exp(-0.5) =
\* 0.6065... for corr_len = 1, exp(-0.005) = 0.9950... for corr_len = 10,
\* 0.9999... for a longer one up to 10^7 and 0.0000... for corr_len <= 0.1.
\* From corr_len = 10^8 on the exponent, 5e-17 at most, is below half the
\* spacing of the doubles under 1, and np.exp gives exactly 1.0.
Kernel(wi, wj, log_len) ==
    IF wi = wj THEN KernelUnit
    ELSE IF log_len < 0 THEN 0
    ELSE IF log_len = 0 THEN 606
    ELSE IF log_len = 1 THEN 995
    ELSE IF log_len < 8 THEN 999
    ELSE KernelUnit

\* Lines 1997-2008: the covariance matrix of the Gaussian process, for
\* pixels of equal variance data_var, in thousandths
GPCovariance(spec, data_var, corr_amp, log_len) ==
    LET w == SpecWavel(spec)
    IN [i \in 1..2 |-> [j \in 1..2 |->
           corr_amp * corr_amp * data_var * Kernel(w[i], w[j], log_len)
           + (1 - corr_amp * corr_amp) * (IF i = j THEN 1 ELSE 0) * data_var * KernelUnit]]

\* Line 1970: self.spectrum[spec_item][1] * sigma_i * sigma_j, with the
\* ratios sigma_i squared (an integer) in place of sigma_i
InflatedCovariance(spec, data_var) ==
    LET c == SpecCov(spec)
    IN [i \in 1..2 |-> [j \in 1..2 |-> c[i][j] * data_var]]

\* binary_to_single(param_dict, star)[g]: the value of grid parameter g for
\* one star; a parameter without the suffix is shared by the two stars
StarValue(param_dict, g, star) ==
    IF star \in {0, 1} /\ Has(param_dict, Sfx(g, star))
    THEN Get(param_dict, Sfx(g, star))
    ELSE Get(param_dict, g)

\* The box of the interpolated grid: teff_range for teff, the extent of the
\* grid for the other parameters
InBox(o, param_dict, star) ==
    \A i \in 1..Len(GridBounds) :
        LET g == GridBounds[i][1]
            box == IF g = "teff" /\ o.teff_range.t = "pair" THEN o.teff_range
                   ELSE GridBounds[i][2]
            v == StarValue(param_dict, g, star)
        IN box.lo <= v /\ v <= box.hi

(***************************************************************************)
(* _lnlike_func, lines 1333-2032.  A call is followed as a record r:       *)
(* ret is "" while the call runs, "neginf" after return -np.inf and        *)
(* "raise" after an exception exc; evals counts the calls of the forward   *)
(* model; ln_nan says that ln_like is NaN and ln_inf that a term of -inf   *)
(* was added to it; flux_nan says that the model flux of the dataset at    *)
(* hand holds a NaN; terms lists the terms added; params is the vector of  *)
(* the call and applied the values read from it; written holds the objects *)
(* that the call has written into in place.                                *)
(***************************************************************************)
\* The names of _lnlike_func and _prior_transform that are the target of an
\* augmented assignment or of an assignment to an item, with the object that
\* the name is bound to there: "call" for an object made in the call (a
\* literal, the value of an arithmetic expression or of a call of a
\* collaborator), "cube" for the argument of _prior_transform.  No target is
\* bound to params or to an attribute of self.
Bindings ==
    << <<"all_param", "call">>,   \* all_param = {}, line 1355
       <<"param_dict", "call">>,  \* param_dict = {}, line 1421
       <<"ln_like", "call">>,     \* ln_like = 0.0, line 1430
       <<"phot_flux", "call">>,   \* get_flux(...), spectrum_to_flux(...), 1543-1627
       <<"phot_var", "call">>,    \* phot_item[1] ** 2, lines 1686 and 1717
       <<"disk_flux", "call">>,   \* disk_flux = 0.0, line 1882
       <<"model_flux", "call">>,  \* flux_interp(...), a sum, apply_obs(...), 1788-1909
       <<"lnlike_tmp", "call">>,  \* an arithmetic expression, line 2021
       <<"param_copy", "call">>,  \* param_out = cube.copy(), line 1304
       <<"param_out", "cube">> >> \* param_out = cube, line 1312

\* Bindings with model_flux bound to the flux column of the data, a view of
\* self.spectrum
BindingsFluxOfData == Put(Bindings, "model_flux", "self.spectrum")

\* Owner by BindingsFluxOfData
OwnerFluxOfData(name) == Get(BindingsFluxOfData, name)

\* The object that is written into by an assignment in place to the name
Owner(name) == Get(Bindings, name)

Begin ==
    [ret |-> "", exc |-> "", evals |-> 0, ln_nan |-> FALSE, ln_inf |-> FALSE,
     flux_nan |-> FALSE, terms |-> <<>>, params |-> <<>>, applied |-> EmptyDict,
     written |-> {}]

Throw(r, e) == [r EXCEPT !.ret = "raise", !.exc = e]

\* An assignment in place to the name: "name += ..." or "name[...] = ..."
Written(r, name) ==
    IF r.ret # "" THEN r ELSE [r EXCEPT !.written = @ \cup {Owner(name)}]

\* spectrum_interp(list(param.values())): one interpolation of the grid.
\* Outside the box of the grid the collaborator raises or gives NaN (oob).
GridInterp(r, o, param_dict, star, oob) ==
    IF r.ret # "" THEN r
    ELSE IF InBox(o, param_dict, star) THEN [r EXCEPT !.evals = @ + 1]
    ELSE IF oob = "raise" THEN Throw([r EXCEPT !.evals = @ + 1], "ValueError")
    ELSE [r EXCEPT !.evals = @ + 1, !.flux_nan = TRUE]

\* Lines 1557-1623 and 1793-1858: the spectrum of the atmosphere
AtmosphereFlux(r, o, param_dict, oob) ==
    IF o.binary
    THEN GridInterp(GridInterp(r, o, param_dict, 0, oob), o, param_dict, 1, oob)
    ELSE GridInterp(r, o, param_dict, 2, oob)

\* Lines 1633-1676 and 1862-1905: the blackbody disk components
RECURSIVE DiskFlux(_, _, _, _)
DiskFlux(r, o, all_param, i) ==
    IF r.ret # "" \/ i >= o.n_disk THEN r
    ELSE LET key == IF o.n_disk = 1 THEN "disk_teff" ELSE Sfx("disk_teff", i)
         IN IF ~Has(all_param, key) THEN Throw(r, "KeyError")
            ELSE DiskFlux([r EXCEPT !.evals = @ + 1], o, all_param, i + 1)

\* Lines 1420-1426: [err, d]; d is None when param_interp is None
RECURSIVE ParamDict(_, _, _)
ParamDict(names, all_param, i) ==
    IF i > Len(names) THEN [err |-> "", d |-> EmptyDict]
    ELSE IF ~Has(all_param, names[i]) THEN [err |-> "KeyError", d |-> EmptyDict]
    ELSE LET rest == ParamDict(names, all_param, i + 1)
         IN [err |-> rest.err,
             d |-> << <<names[i], Get(all_param, names[i])>> >> \o rest.d]

\* params[self.cube_index[key]]
CubeLookup(r, o, key) ==
    IF r.ret # "" THEN r
    ELSE IF ~Has(o.cube_index, key) THEN Throw(r, "KeyError")
    ELSE [r EXCEPT !.applied = Put(@, key, r.params[Get(o.cube_index, key) + 1])]

\* Lines 1599-1607 and 1835-1843: the fluxes of the two stars are weighted
\* with spec_weight if it has a cube index, and added otherwise
Weighting(r, o) ==
    IF o.binary /\ Has(o.cube_index, "spec_weight") THEN CubeLookup(r, o, "spec_weight")
    ELSE r

\* Lines 1680-1681 and 1920-1921: the flux offset, if it has a cube index,
\* is added in place to flux, which is phot_flux or model_flux
FluxOffset(r, o, flux) ==
    IF Has(o.cube_index, "flux_offset")
    THEN Written(CubeLookup(r, o, "flux_offset"), flux)
    ELSE r

\* "ln_like += ..." of a term
AddTerm(r, name) ==
    IF r.ret # "" THEN r
    ELSE Written([r EXCEPT !.terms = Append(@, name), !.ln_nan = @ \/ r.flux_nan], "ln_like")

\* ln_like += -0.5 * (value - prior_value[0]) ** 2 / prior_value[1] ** 2 of
\* lines 1440, 1521-1525 and 1529-1533.  With prior_value[1] = 0 the division
\* is one by zero: of a Python float (pyfloat) it raises ZeroDivisionError,
\* of a NumPy float it gives -inf, or NaN for 0 / 0 (equal says that value is
\* prior_value[0]) and for a value that is NaN.
AddPriorTerm(r, name, prior_value, equal, pyfloat) ==
    IF r.ret # "" THEN r
    ELSE IF prior_value.hi # 0 THEN AddTerm(r, name)
    ELSE IF pyfloat THEN Throw(r, "ZeroDivisionError")
    ELSE Written([r EXCEPT !.terms = Append(@, name),
                           !.ln_nan = @ \/ r.flux_nan \/ equal,
                           !.ln_inf = @ \/ (~r.flux_nan /\ ~equal)], "ln_like")

\* Lines 1458-1526: the prior on the flux ratio of the two stars; ratio is
\* phot_flux_1 / phot_flux_0 as the forward model gives it, a NumPy float
RatioPrior(r, o, key, param_dict, has_dict, ratio, oob) ==
    IF ~has_dict THEN Throw(r, "TypeError")
    ELSE LET r0 == [r EXCEPT !.flux_nan = FALSE]
             r2 == GridInterp(GridInterp(r0, o, param_dict, 0, oob), o, param_dict, 1, oob)
             b == IF Has(o.bounds, key) THEN Get(o.bounds, key) ELSE None
         IN IF r2.ret # "" THEN r2
            ELSE IF ~r2.flux_nan /\ b.t = "pair" /\ (ratio < b.lo \/ ratio > b.hi)
            THEN [r2 EXCEPT !.ret = "neginf"]
            ELSE AddPriorTerm(r2, "prior:" \o key, Get(o.normal_prior, key),
                              ratio = Get(o.normal_prior, key).lo, FALSE)

\* Lines 1434-1533: one pass of the loop over self.normal_prior.  buffer
\* says that params is the buffer of MultiNest, whose items are Python
\* floats; the items of an np.ndarray are NumPy floats.  The mass that
\* logg_to_mass gives is of the type of its arguments, and no whole number.
NormalPrior(r, o, key, param_dict, has_dict, ratio, oob, buffer) ==
    IF r.ret # "" THEN r
    ELSE IF key = "mass"
    THEN (IF InList(o.modelpar, "logg") /\ InList(o.modelpar, "radius")
          THEN AddPriorTerm(CubeLookup(CubeLookup(r, o, "logg"), o, "radius"), "prior:mass",
                            Get(o.normal_prior, key), FALSE, buffer)
          ELSE r)
    ELSE IF IsRatioKey(key) THEN RatioPrior(r, o, key, param_dict, has_dict, ratio, oob)
    ELSE LET r1 == CubeLookup([r EXCEPT !.flux_nan = FALSE], o, key)
         IN IF r1.ret # "" THEN r1
            ELSE AddPriorTerm(r1, "prior:" \o key, Get(o.normal_prior, key),
                              Get(r1.applied, key) = Get(o.normal_prior, key).lo, buffer)

RECURSIVE NormalPriors(_, _, _, _, _, _, _, _)
NormalPriors(r, o, i, param_dict, has_dict, ratio, oob, buffer) ==
    IF i > Len(o.normal_prior) THEN r
    ELSE NormalPriors(NormalPrior(r, o, o.normal_prior[i][1], param_dict, has_dict, ratio, oob,
                                  buffer),
                      o, i + 1, param_dict, has_dict, ratio, oob, buffer)

\* Lines 1651 and 1674, 1895 and 1905: the flux of the disk components, if
\* there are any, is added in place to flux; with more than one component
\* the fluxes for a spectrum are added in place to disk_flux before
DiskAdded(r, o, flux) ==
    IF o.n_disk = 0 THEN r
    ELSE IF o.n_disk > 1 /\ flux = "model_flux"
    THEN Written(Written(r, "disk_flux"), flux)
    ELSE Written(r, flux)

\* Lines 1689-1702 and 1720-1734: the variance of a filter is inflated in
\* place if the error of the filter or of its instrument is a parameter
VarianceInflated(r, filter, all_param) ==
    IF Has(all_param, filter \o "_error") \/ Has(all_param, InstrOf(filter) \o "_error")
    THEN Written(r, "phot_var")
    ELSE r

\* Lines 1537-1713: the term of one filter.  fault = "phot" stands for a
\* forward model that gives NaN for the synthetic flux.
Photometry(r, o, filter, all_param, param_dict, has_dict, fault, oob) ==
    IF r.ret # "" THEN r
    ELSE LET r0 == [r EXCEPT !.flux_nan = (fault = "phot")]
             flux == IF o.model = "planck" THEN [r0 EXCEPT !.evals = @ + 1]
                     ELSE IF o.model = "powerlaw"
                     THEN (IF has_dict THEN [r0 EXCEPT !.evals = @ + 1]
                           ELSE Throw(r0, "TypeError"))
                     ELSE FluxOffset(
                              DiskAdded(
                                  DiskFlux(Weighting(AtmosphereFlux(r0, o, param_dict, oob), o),
                                           o, all_param, 0),
                                  o, "phot_flux"),
                              o, "phot_flux")
         IN AddTerm(VarianceInflated(flux, filter, all_param), "phot:" \o filter)

RECURSIVE PhotometryLoop(_, _, _, _, _, _, _, _)
PhotometryLoop(r, o, i, all_param, param_dict, has_dict, fault, oob) ==
    IF i > Len(o.filter_name) THEN r
    ELSE PhotometryLoop(
             Photometry(r, o, o.filter_name[i], all_param, param_dict, has_dict, fault, oob),
             o, i + 1, all_param, param_dict, has_dict, fault, oob)

\* Lines 1753-1771: rot_broad and rad_vel of one spectrum
Broadening(r, o, name, spec_item) ==
    IF InList(o.modelpar, name) THEN CubeLookup(r, o, name)
    ELSE IF InList(o.modelpar, name \o "_" \o spec_item)
    THEN CubeLookup(r, o, name \o "_" \o spec_item)
    ELSE r

\* Lines 1773-1916: the model spectrum at the wavelengths of the data
SpectrumFlux(r, o, all_param, param_dict, oob) ==
    IF r.ret # "" THEN r
    ELSE IF o.model = "planck" THEN Throw([r EXCEPT !.evals = @ + 1], "IndexError")
    ELSE IF o.model = "powerlaw" THEN Throw(r, "IndexError")
    ELSE DiskAdded(DiskFlux(Weighting(AtmosphereFlux(r, o, param_dict, oob), o),
                            o, all_param, 0),
                   o, "model_flux")

\* np.linalg.inv(m): LinAlgError for a singular matrix; a matrix of NaN is
\* inverted to NaN without an exception
Invert(r, m, is_nan) ==
    IF r.ret # "" THEN r
    ELSE IF ~is_nan /\ Det2(m) = 0 THEN Throw(r, "LinAlgError")
    ELSE r

\* Lines 1950-1958: the variance of a pixel
DataVar(spec_item, all_param) ==
    LET sigma == SpecSigma(spec_item)[1]
        key == "error_" \o spec_item
    IN IF Has(all_param, key)
       THEN sigma * sigma + (Get(all_param, key) * ModelFlux) * (Get(all_param, key) * ModelFlux)
       ELSE sigma * sigma

\* Lines 1960-2030: the term of one spectrum, by the three branches.  The
\* first one is taken for data with an inverted covariance (item 2 of the
\* tuple); with the error inflation it multiplies the covariance (item 1),
\* which is None * ndarray, a TypeError, for data without one.
SpectrumTerm(r, o, spec_item, all_param) ==
    IF r.ret # "" THEN r
    ELSE LET inflated == Has(all_param, "error_" \o spec_item)
             data_var == DataVar(spec_item, all_param)
             var_nan == inflated /\ r.flux_nan
         IN IF HasInvCov(o, spec_item)
            THEN AddTerm(IF ~inflated THEN r
                         ELSE IF ~HasCov(o, spec_item) THEN Throw(r, "TypeError")
                         ELSE Invert(r, InflatedCovariance(spec_item, data_var), var_nan),
                         "cov:" \o spec_item)
            ELSE IF InList(o.fit_corr, spec_item)
            THEN (IF ~Has(all_param, "corr_len_" \o spec_item)
                     \/ ~Has(all_param, "corr_amp_" \o spec_item)
                  THEN Throw(r, "KeyError")
                  ELSE AddTerm(Invert(r, GPCovariance(spec_item, data_var,
                                          Get(all_param, "corr_amp_" \o spec_item),
                                          Get(all_param, "corr_len_" \o spec_item)), var_nan),
                               "gp:" \o spec_item))
            ELSE Written(Written([r EXCEPT !.terms = Append(@, "indep:" \o spec_item)],
                                 "lnlike_tmp"), "ln_like")

\* Lines 1750-2030: one pass of the loop over self.spectrum.  fault = "spec"
\* stands for a resampling that leaves a NaN in the model spectrum.
Spectrum(r, o, spec_item, all_param, param_dict, fault, oob) ==
    LET r0 == Broadening(Broadening(r, o, "vsini", spec_item), o, "rad_vel", spec_item)
        r1 == IF r0.ret # "" THEN r0 ELSE [r0 EXCEPT !.flux_nan = (fault = "spec")]
    IN SpectrumTerm(FluxOffset(SpectrumFlux(r1, o, all_param, param_dict, oob), o,
                               "model_flux"),
                    o, spec_item, all_param)

RECURSIVE SpectrumLoop(_, _, _, _, _, _, _)
SpectrumLoop(r, o, i, all_param, param_dict, fault, oob) ==
    IF r.ret # "" \/ i > Len(o.spectrum) THEN r
    ELSE SpectrumLoop(Spectrum(r, o, o.spectrum[i], all_param, param_dict, fault, oob),
                      o, i + 1, all_param, param_dict, fault, oob)

\* The attributes of self that _lnlike_func reads
LnLikeReads ==
    {"binary", "bounds", "cross_sections", "cube_index", "diskphot", "diskspec", "fit_corr",
     "fix_param", "flux_ratio", "model", "modelpar", "modelphot", "modelspec", "n_disk",
     "n_planck", "normal_prior", "objphot", "param_interp", "prior_phot", "spectrum",
     "synphot", "weights"}

\* The call reads an attribute that was written into by an earlier call
Stale(o) == \E a \in LnLikeReads : ("self." \o a) \in o.overwritten

\* FitModel._lnlike_func(params): kind is "value" (a finite float), "neginf",
\* "nan" or "raise"; order_ok says that the ordering checks were passed.
LnLikeFunc(o, params, fault, oob, ratio, buffer) ==
    LET all_param == AllParam(o, params)
        order == RunChecks(all_param, OrderChecks(o), 1)
        has_dict == ~IsNone(o.param_interp)
        pd == IF has_dict THEN ParamDict(o.param_interp.items, all_param, 1)
              ELSE [err |-> "", d |-> EmptyDict]
        r0 == Written([Begin EXCEPT !.params = params], "all_param")
    IN IF order = "KeyError"
       THEN Result("raise", "KeyError", FALSE, 0, <<>>, EmptyDict, r0.written, Stale(o))
       ELSE IF order = "reject"
       THEN Result("neginf", "", FALSE, 0, <<>>, EmptyDict, r0.written, Stale(o))
       ELSE IF pd.err # ""
       THEN Result("raise", pd.err, TRUE, 0, <<>>, EmptyDict,
                   Written(r0, "param_dict").written, Stale(o))
       ELSE LET r1 == NormalPriors(IF has_dict THEN Written(r0, "param_dict") ELSE r0,
                                   o, 1, pd.d, has_dict, ratio, oob, buffer)
                r2 == PhotometryLoop(r1, o, 1, all_param, pd.d, has_dict, fault, oob)
                r3 == SpectrumLoop(r2, o, 1, all_param, pd.d, fault, oob)
            IN Result(IF r3.ret = "raise" THEN "raise"
                      ELSE IF r3.ret = "neginf" THEN "neginf"
                      ELSE IF r3.ln_nan THEN "nan"
                      ELSE IF r3.ln_inf THEN "neginf" ELSE "value",
                      r3.exc, TRUE, r3.evals, r3.terms, r3.applied, r3.written, Stale(o))

\* The vector of a call of _lnlike_func after the call
ParamsAfter(params, res) == IF "params" \in res.written THEN <<>> ELSE params

\* The object after a call that wrote into the objects written: the
\* attributes of self among them are overwritten
Overwrite(o, written) ==
    [o EXCEPT !.overwritten = @ \cup (written \ {"call", "cube", "params"})]

(***************************************************************************)
(* FitModel._prior_transform, lines 1264-1330.                             *)
(***************************************************************************)
\* norm.ppf(u, loc=mean, scale=sigma) at the unit-cube values 0, 0.5 and 1,
\* for normal = (mean, sigma); NaN for a scale that is not positive
NormPpf(u, normal) ==
    IF normal.hi <= 0 THEN NaN
    ELSE IF u = Zero THEN Infinity(TRUE)
    ELSE IF u = Half THEN FromInt(normal.lo)
    ELSE Infinity(FALSE)

\* The numbers of a bound as doubles: the model writes whole numbers as
\* integers
Lower(b) == IF "float" \in DOMAIN b THEN b.lo ELSE FromInt(b.lo)

Upper(b) == IF "float" \in DOMAIN b THEN b.hi ELSE FromInt(b.hi)

\* Uniform without the lower bound as offset
UniformNoOffset(b, u) == FlMul(FlSub(Upper(b), Lower(b)), u)

\* bounds[p][0] + (bounds[p][1] - bounds[p][0]) * u
Uniform(b, u) == FlAdd(Lower(b), FlMul(FlSub(Upper(b), Lower(b)), u))

\* TransformItem with the bounds looked up before the normal prior
TransformItemBoundsFirst(o, t, bounds, param_item, index) ==
    IF t.exc # "" THEN t
    ELSE IF Has(bounds, param_item) /\ Get(bounds, param_item).t = "pair"
    THEN [t EXCEPT !.out[index + 1] = Uniform(Get(bounds, param_item), @)]
    ELSE IF Has(o.normal_prior, param_item)
    THEN [t EXCEPT !.out[index + 1] = NormPpf(@, Get(o.normal_prior, param_item))]
    ELSE [t EXCEPT !.exc = "KeyError"]

\* One pass of the loop "for param_item in cube_index" of lines 1314-1328;
\* t holds the exception, if any, and param_out
TransformItem(o, t, bounds, param_item, index) ==
    IF t.exc # "" THEN t
    ELSE IF Has(o.normal_prior, param_item)
    THEN [t EXCEPT !.out[index + 1] = NormPpf(@, Get(o.normal_prior, param_item))]
    ELSE IF ~Has(bounds, param_item) THEN [t EXCEPT !.exc = "KeyError"]
    ELSE IF IsNone(Get(bounds, param_item)) THEN [t EXCEPT !.exc = "TypeError"]
    ELSE IF Short(Get(bounds, param_item), 2) THEN [t EXCEPT !.exc = "IndexError"]
    ELSE IF Get(bounds, param_item).t # "pair" THEN [t EXCEPT !.exc = "TypeError"]
    ELSE [t EXCEPT !.out[index + 1] = Uniform(Get(bounds, param_item), @)]

RECURSIVE TransformLoop(_, _, _, _, _)
TransformLoop(o, t, bounds, cube_index, i) ==
    IF i > Len(cube_index) THEN t
    ELSE TransformLoop(o, TransformItem(o, t, bounds, cube_index[i][1], cube_index[i][2]),
                       bounds, cube_index, i + 1)

\* TransformResult with a copy made of every kind of buffer
TransformResultCopy(t, cube, ndarray) ==
    [exc |-> t.exc, ret |-> IF t.exc = "" THEN t.out ELSE <<>>, buffer |-> cube,
     written |-> {Owner("param_copy")}]

\* The outcome of a call: the exception, the array returned, the caller's
\* cube after the call, and the objects written into.  For an np.ndarray
\* param_out is a copy of the cube (lines 1303-1304); for any other buffer
\* param_out is the caller's cube itself (line 1312).
TransformResult(t, cube, ndarray) ==
    LET target == Owner(IF ndarray THEN "param_copy" ELSE "param_out")
    IN [exc |-> t.exc,
        ret |-> IF t.exc = "" THEN t.out ELSE <<>>,
        buffer |-> IF target = "cube" THEN t.out ELSE cube,
        written |-> {target}]

\* The decorator @typechecked of line 1278, which checks the arguments
\* against the annotations of line 1280 before the body runs: bounds is a
\* Dict[str, Tuple[float, float]], of which the first item only is checked;
\* cube has no annotation, and the values of cube_index are integers
PriorChecked(bounds) == bounds = EmptyDict \/ IsFloatTuple(bounds[1][2])

\* FitModel._prior_transform(cube, bounds, cube_index): a call that fails
\* the check of its arguments raises before a statement of the body runs,
\* so nothing is written
PriorTransform(o, cube, bounds, cube_index, ndarray) ==
    IF ~PriorChecked(bounds)
    THEN [exc |-> "TypeCheckError", ret |-> <<>>, buffer |-> cube, written |-> {}]
    ELSE TransformResult(TransformLoop(o, [exc |-> "", out |-> cube], bounds,
                                       cube_index, 1),
                         cube, ndarray)

(***************************************************************************)
(* The configurations: the arguments of FitModel(...).                     *)
(***************************************************************************)
Args(model, bounds, normal_prior, fit_corr, inc_phot, inc_spec) ==
    [model |-> model, bounds |-> bounds, bounds_none |-> FALSE,
     normal_prior |-> normal_prior, fit_corr |-> fit_corr, ext_filter |-> "None",
     inc_phot |-> inc_phot, inc_spec |-> inc_spec, object |-> ObjSpectrum]

Teff == <<"teff", Pair(1, 3)>>
TeffBinary == <<"teff", Tup(Pair(1, 2), Pair(1, 3))>>
LoggFixed == <<"logg", Pair(1, 1)>>
LoggBinary == <<"logg", Tup(Pair(1, 1), Pair(1, 1))>>
ParallaxFixed == <<"parallax", Pair(10, 10)>>
RadiusFixed == <<"radius", Pair(1, 1)>>
OneDisk == << <<"disk_teff", Pair(0, 1)>>, <<"disk_radius", Pair(0, 1)>> >>
TwoDisks ==
    << <<"disk_teff", List(<<Pair(0, 1), Pair(0, 1)>>)>>,
       <<"disk_radius", List(<<Pair(0, 1), Pair(0, 1)>>)>> >>
TwoDisksFixedRadius ==
    << <<"disk_teff", List(<<Pair(0, 1), Pair(0, 1)>>)>>,
       <<"disk_radius", List(<<Pair(1, 1), Pair(1, 1)>>)>> >>
Phot == Bool(TRUE)
NoSpec == Bool(FALSE)

GridPhot == Args("ames-cond", <<Teff>>, EmptyDict, <<>>, Phot, NoSpec)
GridSpectra ==
    Args("ames-cond",
         <<Teff, LoggFixed, RadiusFixed, ParallaxFixed, <<"GPI", Tup(None, Pair(0, 1))>> >>,
         EmptyDict, <<"SPHERE", "GPI">>, Bool(FALSE), Bool(TRUE))
GridIndependent ==
    Args("ames-cond", <<Teff, LoggFixed, ParallaxFixed>>, EmptyDict, <<>>,
         Phot, List(<<"SPHERE">>))
GridOneDisk ==
    Args("ames-cond", <<Teff, LoggFixed, ParallaxFixed>> \o OneDisk, EmptyDict, <<>>,
         Phot, NoSpec)
GridTwoDisks ==
    Args("ames-cond", <<Teff, LoggFixed, RadiusFixed, ParallaxFixed>> \o TwoDisks,
         EmptyDict, <<>>, Phot, NoSpec)
ScalingTwoDisks ==
    Args("ames-cond",
         <<Teff, LoggFixed, <<"flux_scaling", Pair(0, 1)>> >> \o TwoDisksFixedRadius,
         EmptyDict, <<>>, Phot, NoSpec)
ScalingOneDisk ==
    Args("ames-cond", <<Teff, LoggFixed, <<"flux_scaling", Pair(0, 1)>> >> \o OneDisk,
         EmptyDict, <<>>, Phot, NoSpec)
BinaryTeffOnly == Args("ames-cond", <<TeffBinary>>, EmptyDict, <<>>, Phot, NoSpec)
BinaryTeffLogg ==
    Args("ames-cond", <<TeffBinary, <<"logg", Pair(1, 2)>> >>, EmptyDict, <<>>, Phot, NoSpec)
BinaryLoggOnly ==
    Args("ames-cond", << <<"logg", Tup(Pair(1, 2), Pair(1, 3))>>, RadiusFixed, ParallaxFixed >>,
         EmptyDict, <<>>, Phot, NoSpec)
BinaryBoth ==
    Args("ames-cond", <<TeffBinary, LoggBinary, ParallaxFixed>>, EmptyDict, <<>>,
         Phot, NoSpec)
BinaryOneDisk ==
    Args("ames-cond",
         <<TeffBinary, LoggBinary, RadiusFixed, ParallaxFixed, <<"spec_weight", Pair(1, 1)>> >>
         \o OneDisk,
         EmptyDict, <<>>, Phot, NoSpec)
BinaryTwoDisks ==
    Args("ames-cond",
         <<TeffBinary, LoggBinary, RadiusFixed, ParallaxFixed, <<"spec_weight", Pair(1, 1)>> >>
         \o TwoDisksFixedRadius,
         EmptyDict, <<>>, Phot, NoSpec)
BinaryRadiusTwoDisks ==
    Args("ames-cond",
         <<TeffBinary, LoggBinary, <<"radius", Tup(Pair(1, 1), Pair(2, 2))>>, ParallaxFixed>>
         \o TwoDisksFixedRadius,
         EmptyDict, <<>>, Phot, NoSpec)
PlanckOne ==
    Args("planck", << <<"teff", Pair(1, 3)>>, <<"radius", Pair(0, 1)>> >>, EmptyDict, <<>>,
         Phot, NoSpec)
PlanckTwo ==
    Args("planck",
         << <<"teff", List(<<Pair(0, 1), Pair(0, 1)>>)>>,
            <<"radius", List(<<Pair(0, 1), Pair(0, 1)>>)>> >>,
         EmptyDict, <<>>, Phot, NoSpec)
PlanckTwoFixed ==
    Args("planck",
         << <<"teff", List(<<Pair(1, 1), Pair(0, 1)>>)>>,
            <<"radius", List(<<Pair(0, 1), Pair(0, 1)>>)>> >>,
         EmptyDict, <<>>, Phot, NoSpec)
PlanckSpectrum ==
    Args("planck", << <<"teff", Pair(1, 3)>>, <<"radius", Pair(0, 1)>> >>, EmptyDict, <<>>,
         Bool(FALSE), List(<<"GPI">>))
Powerlaw ==
    Args("powerlaw",
         << <<"log_powerlaw_a", Pair(0, 1)>>, <<"log_powerlaw_b", Pair(0, 1)>>,
            <<"log_powerlaw_c", Pair(0, 1)>> >>,
         EmptyDict, <<>>, Phot, NoSpec)
FixedUnused ==
    Args("ames-cond", <<Teff, <<"ism_red", Pair(3, 3)>> >>, EmptyDict, <<>>, Phot, NoSpec)
FixedScalingParallax ==
    Args("ames-cond", <<Teff, <<"flux_scaling", Pair(0, 1)>>, ParallaxFixed>>, EmptyDict,
         <<>>, Phot, NoSpec)
PriorOnTeff ==
    Args("ames-cond", <<Teff, LoggFixed>>, << <<"teff", Pair(2, 1)>> >>, <<>>, Phot, NoSpec)
PriorOnly ==
    Args("ames-cond", <<Teff, LoggFixed>>, << <<"radius", Pair(2, 1)>> >>, <<>>, Phot, NoSpec)
NoneBoth == Tup(None, None)
BinaryNoneBoth ==
    Args("ames-cond",
         << <<"teff", NoneBoth>>, <<"logg", NoneBoth>>, RadiusFixed, ParallaxFixed,
            <<"spec_weight", Pair(1, 1)>> >>,
         EmptyDict, <<>>, Phot, NoSpec)
BinaryTeffPairNone ==
    Args("ames-cond", << <<"teff", Tup(Pair(1, 2), None)>>, LoggBinary, ParallaxFixed >>,
         EmptyDict, <<>>, Phot, NoSpec)
BinaryTeffNonePair ==
    Args("ames-cond", << <<"teff", Tup(None, Pair(1, 3))>>, LoggBinary, ParallaxFixed >>,
         EmptyDict, <<>>, Phot, NoSpec)
BinaryLoggPairNone ==
    Args("ames-cond", << TeffBinary, <<"logg", Tup(Pair(1, 1), None)>>, ParallaxFixed >>,
         EmptyDict, <<>>, Phot, NoSpec)
GridOffset ==
    Args("ames-cond",
         <<Teff, LoggFixed, RadiusFixed, ParallaxFixed,
           <<"flux_offset", FloatPair(MinusTenth, TwoTenths)>> >>,
         EmptyDict, <<>>, Phot, NoSpec)
Lognorm ==
    << <<"lognorm_radius", Pair(1, 10)>>, <<"lognorm_sigma", Pair(2, 2)>>,
       <<"lognorm_ext", Pair(1, 1)>> >>
GridLognormIsm ==
    Args("ames-cond",
         <<Teff, LoggFixed, RadiusFixed, ParallaxFixed, <<"ism_ext", Pair(0, 1)>> >> \o Lognorm,
         EmptyDict, <<>>, Phot, NoSpec)
BinaryLognormIsm ==
    Args("ames-cond",
         <<TeffBinary, LoggBinary, RadiusFixed, ParallaxFixed, <<"spec_weight", Pair(1, 1)>>,
           <<"ism_ext", Tup(Pair(0, 1), Pair(1, 1))>> >> \o Lognorm,
         EmptyDict, <<>>, Phot, NoSpec)
ScalingRadius ==
    Args("ames-cond",
         <<Teff, LoggFixed, <<"flux_scaling", Pair(0, 1)>>, <<"radius", Pair(0, 1)>> >>,
         EmptyDict, <<>>, Phot, NoSpec)
ScalingBoth ==
    Args("ames-cond",
         <<Teff, LoggFixed, <<"flux_scaling", Pair(0, 1)>>, <<"log_flux_scaling", Pair(0, 1)>> >>,
         EmptyDict, <<>>, Phot, NoSpec)
NoDataLists == Args("ames-cond", <<Teff>>, EmptyDict, <<>>, List(<<>>), List(<<>>))
PowerlawSpectraOnly == [Powerlaw EXCEPT !.inc_phot = Bool(FALSE), !.inc_spec = Bool(TRUE)]
PlanckNoRadius ==
    Args("planck", << <<"teff", Pair(1, 3)>> >>, EmptyDict, <<>>, Phot, NoSpec)
PlanckNone == [PlanckOne EXCEPT !.bounds = EmptyDict, !.bounds_none = TRUE]
PowerlawNoBounds == Args("powerlaw", EmptyDict, EmptyDict, <<>>, Phot, NoSpec)
GridTeffNone ==
    Args("ames-cond", << <<"teff", None>>, LoggFixed, RadiusFixed, ParallaxFixed >>,
         EmptyDict, <<>>, Phot, NoSpec)
GridLoggNone ==
    Args("ames-cond", << Teff, <<"logg", None>>, RadiusFixed, ParallaxFixed >>,
         EmptyDict, <<>>, Phot, NoSpec)
GridWide ==
    Args("ames-cond", << <<"teff", Pair(0, 5)>>, LoggFixed, RadiusFixed, ParallaxFixed >>,
         EmptyDict, <<>>, Phot, NoSpec)
GridAbove ==
    Args("ames-cond", << <<"teff", Pair(5, 6)>>, LoggFixed, RadiusFixed, ParallaxFixed >>,
         EmptyDict, <<>>, Phot, NoSpec)
GridFixedBelow ==
    Args("ames-cond", << <<"teff", Pair(0, 0)>>, LoggFixed, RadiusFixed, ParallaxFixed >>,
         EmptyDict, <<>>, Phot, NoSpec)
BinaryWide ==
    Args("ames-cond",
         << <<"teff", Tup(Pair(0, 2), Pair(1, 5))>>, LoggBinary, RadiusFixed, ParallaxFixed,
            <<"spec_weight", Pair(1, 1)>> >>,
         EmptyDict, <<>>, Phot, NoSpec)
GridInverted ==
    Args("ames-cond", << Teff, LoggFixed, <<"radius", Pair(2, 1)>>, ParallaxFixed >>,
         EmptyDict, <<>>, Phot, NoSpec)
GridParallax ==
    Args("ames-cond", << Teff, LoggFixed, RadiusFixed, <<"parallax", Pair(9, 11)>> >>,
         EmptyDict, <<>>, Phot, NoSpec)
PlanckTwoParallax ==
    Args("planck",
         << <<"teff", List(<<Pair(1, 1), Pair(0, 1)>>)>>,
            <<"radius", List(<<Pair(1, 1), Pair(1, 1)>>)>>,
            <<"parallax", Pair(9, 11)>> >>,
         EmptyDict, <<>>, Phot, NoSpec)
PlanckTwoParallaxFixed ==
    Args("planck",
         << <<"teff", List(<<Pair(1, 1), Pair(0, 1)>>)>>,
            <<"radius", List(<<Pair(1, 1), Pair(1, 1)>>)>>,
            ParallaxFixed >>,
         EmptyDict, <<>>, Phot, NoSpec)
BinaryFixed ==
    <<TeffBinary, LoggBinary, RadiusFixed, ParallaxFixed, <<"spec_weight", Pair(1, 1)>> >>
RatioUniform ==
    Args("ames-cond", BinaryFixed \o << <<"ratio_NACO.H", Pair(1, 2)>> >>,
         EmptyDict, <<>>, Phot, NoSpec)
RatioNormal ==
    Args("ames-cond", BinaryFixed, << <<"ratio_NACO.H", Pair(1, 1)>> >>, <<>>, Phot, NoSpec)
RatioBoth ==
    Args("ames-cond", BinaryFixed \o << <<"ratio_NACO.H", Pair(1, 2)>> >>,
         << <<"ratio_NACO.H", Pair(1, 1)>> >>, <<>>, Phot, NoSpec)
GridTeffLogg ==
    Args("ames-cond", << Teff, <<"logg", Pair(1, 2)>> >>, EmptyDict, <<>>,
         List(<<"NACO.H">>), NoSpec)
GridOffsetFixed ==
    Args("ames-cond",
         <<Teff, LoggFixed, RadiusFixed, ParallaxFixed, <<"flux_offset", Pair(1, 1)>> >>,
         EmptyDict, <<>>, Phot, NoSpec)
GridVsini ==
    Args("ames-cond",
         <<Teff, LoggFixed, RadiusFixed, ParallaxFixed, <<"vsini", Pair(0, 1)>> >>,
         EmptyDict, <<>>, Bool(FALSE), List(<<"SPHERE">>))
GridVsiniFixed ==
    Args("ames-cond",
         <<Teff, LoggFixed, RadiusFixed, ParallaxFixed, <<"vsini", Pair(1, 1)>>,
           <<"rad_vel", Pair(1, 1)>> >>,
         EmptyDict, <<>>, Bool(FALSE), List(<<"SPHERE">>))
GridMass ==
    Args("ames-cond", <<Teff, <<"logg", Pair(1, 2)>>, ParallaxFixed>>,
         << <<"mass", Pair(1, 1)>> >>, <<>>, Phot, NoSpec)
GridMassFixedLogg ==
    Args("ames-cond", <<Teff, LoggFixed, ParallaxFixed>>,
         << <<"mass", Pair(1, 1)>> >>, <<>>, Phot, NoSpec)
GridLognormFree ==
    Args("ames-cond",
         << <<"teff", Pair(1, 1)>>, LoggFixed, RadiusFixed, ParallaxFixed,
            <<"lognorm_radius", Pair(1, 10)>>, <<"lognorm_sigma", Pair(1, 2)>>,
            <<"lognorm_ext", Pair(0, 1)>> >>,
         EmptyDict, <<>>, Phot, NoSpec)
GridLognormZero ==
    Args("ames-cond",
         << <<"teff", Pair(1, 1)>>, LoggFixed, RadiusFixed, ParallaxFixed,
            <<"lognorm_radius", Pair(0, 10)>>, <<"lognorm_sigma", Pair(2, 2)>>,
            <<"lognorm_ext", Pair(1, 1)>> >>,
         EmptyDict, <<>>, Phot, NoSpec)
GridUnknownSpectrum ==
    Args("ames-cond", <<Teff, LoggFixed, RadiusFixed, ParallaxFixed>>, EmptyDict, <<>>,
         Phot, List(<<"XSHOOTER">>))
GridInstrumentError ==
    Args("ames-cond",
         <<Teff, LoggFixed, RadiusFixed, ParallaxFixed, <<"NACO_error", Pair(0, 1)>> >>,
         EmptyDict, <<>>, Phot, NoSpec)
GridLoggEmpty ==
    Args("ames-cond", <<Teff, <<"logg", List(<<>>)>> >>, EmptyDict, <<>>, Phot, NoSpec)
GridLoggNoneList ==
    Args("ames-cond",
         << <<"teff", Pair(1, 1)>>, <<"logg", List(<<None, None>>)>>, RadiusFixed,
            ParallaxFixed, <<"spec_weight", Pair(1, 1)>> >>,
         EmptyDict, <<>>, Phot, NoSpec)
GridTeffNoneList ==
    Args("ames-cond", << <<"teff", List(<<None, None>>)>> >>, EmptyDict, <<>>, Phot, NoSpec)
PlanckEmpty ==
    Args("planck", << <<"teff", List(<<>>)>>, <<"radius", List(<<>>)>> >>, EmptyDict, <<>>,
         Phot, NoSpec)
PlanckUneven ==
    Args("planck",
         << <<"teff", List(<<Pair(0, 1), Pair(0, 1)>>)>>, <<"radius", List(<<Pair(0, 1)>>)>> >>,
         EmptyDict, <<>>, Phot, NoSpec)
GridTeffOnePair ==
    Args("ames-cond", << <<"teff", List(<<Pair(1, 3)>>)>> >>, EmptyDict, <<>>, Phot, NoSpec)
BinaryParallaxOne ==
    Args("ames-cond",
         <<TeffBinary, LoggBinary, RadiusFixed, <<"parallax", List(<<Pair(1, 3)>>)>> >>,
         EmptyDict, <<>>, Phot, NoSpec)
BinaryIsmOne ==
    Args("ames-cond",
         <<TeffBinary, LoggBinary, RadiusFixed, ParallaxFixed,
           <<"ism_ext", List(<<Pair(0, 1)>>)>> >>,
         EmptyDict, <<>>, Phot, NoSpec)
BinaryRadiusOne ==
    Args("ames-cond",
         <<TeffBinary, LoggBinary, <<"radius", List(<<Pair(1, 3)>>)>>, ParallaxFixed>>,
         EmptyDict, <<>>, Phot, NoSpec)
GridDisksUneven ==
    Args("ames-cond",
         <<Teff, LoggFixed, RadiusFixed, ParallaxFixed,
           <<"disk_teff", List(<<Pair(0, 1), Pair(0, 1)>>)>>,
           <<"disk_radius", List(<<Pair(0, 1)>>)>> >>,
         EmptyDict, <<>>, Phot, NoSpec)
GridCalibShort ==
    Args("ames-cond",
         <<Teff, LoggFixed, RadiusFixed, ParallaxFixed,
           <<"GPI", Tup(Pair(0, 1), List(<<None>>))>> >>,
         EmptyDict, <<>>, Bool(FALSE), Bool(TRUE))
GridCalibPair ==
    Args("ames-cond", <<Teff, LoggFixed, RadiusFixed, ParallaxFixed, <<"GPI", Pair(0, 1)>> >>,
         EmptyDict, <<>>, Bool(FALSE), Bool(TRUE))
GridLognormTuples ==
    Args("ames-cond",
         << <<"teff", Pair(1, 1)>>, LoggFixed, RadiusFixed, ParallaxFixed,
            <<"lognorm_radius", Tup(Pair(1, 10), Pair(1, 10))>>,
            <<"lognorm_sigma", Pair(2, 2)>>, <<"lognorm_ext", Pair(1, 1)>> >>,
         EmptyDict, <<>>, Phot, NoSpec)
PriorSigmaZero ==
    Args("ames-cond", <<Teff, LoggFixed, <<"radius", Pair(0, 1)>>, ParallaxFixed>>,
         << <<"radius", Pair(1, 0)>> >>, <<>>, Phot, NoSpec)
\* The data of GPI come with the inverted covariance only
GridInverseOnly ==
    [Args("ames-cond", <<Teff, LoggFixed, RadiusFixed, ParallaxFixed>>, EmptyDict,
          <<"GPI">>, Bool(FALSE), List(<<"GPI">>))
     EXCEPT !.object = << <<"SPHERE", SpecData(FALSE, FALSE)>>,
                          <<"GPI", SpecData(FALSE, TRUE)>> >>]
\* The same data and the inflation of the errors
GridInverseInflated ==
    [Args("ames-cond",
          <<Teff, LoggFixed, RadiusFixed, ParallaxFixed, <<"GPI", Tup(None, Pair(0, 1))>> >>,
          EmptyDict, <<>>, Bool(FALSE), List(<<"GPI">>))
     EXCEPT !.object = << <<"SPHERE", SpecData(FALSE, FALSE)>>,
                          <<"GPI", SpecData(FALSE, TRUE)>> >>]
\* The data of GPI come with the covariance only
GridCovarianceOnly ==
    [Args("ames-cond", <<Teff, LoggFixed, RadiusFixed, ParallaxFixed>>, EmptyDict,
          <<"GPI">>, Bool(FALSE), List(<<"GPI">>))
     EXCEPT !.object = << <<"SPHERE", SpecData(FALSE, FALSE)>>,
                          <<"GPI", SpecData(TRUE, FALSE)>> >>]
\* logg=((), (1, 1)): the bound of the first component is the empty tuple
BinaryLoggEmptyTuple ==
    Args("ames-cond",
         <<TeffBinary, <<"logg", Tup([t |-> "tuple", items |-> <<>>], Pair(1, 1))>>,
           RadiusFixed, ParallaxFixed>>,
         EmptyDict, <<>>, Phot, NoSpec)
\* normal_prior={'teff': (2, 1), 'radius': None}: the second prior is None
PriorSecondNone ==
    Args("ames-cond", <<Teff, LoggFixed>>,
         << <<"teff", Pair(2, 1)>>, <<"radius", None>> >>, <<>>, Phot, NoSpec)
\* normal_prior={'teff': (2, 1), 'radius': ((1, 1), (1, 1))}
PriorSecondTuple ==
    Args("ames-cond", <<Teff, LoggFixed>>,
         << <<"teff", Pair(2, 1)>>, <<"radius", Tup(Pair(1, 1), Pair(1, 1))>> >>,
         <<>>, Phot, NoSpec)
\* bounds={'mass': (None, None), 'teff': (1, 3), ...}: the first bound is of
\* a name that the constructor has no use for and is a pair of None
GridFirstBoundNone ==
    Args("ames-cond",
         << <<"mass", NoneBoth>>, Teff, LoggFixed, RadiusFixed, ParallaxFixed >>,
         EmptyDict, <<>>, Phot, NoSpec)
\* One free parameter, the flux offset, and one spectrum
GridOffsetSpectrum ==
    Args("ames-cond",
         << <<"teff", Pair(1, 1)>>, LoggFixed, RadiusFixed, ParallaxFixed,
            <<"flux_offset", Pair(1, 2)>> >>,
         EmptyDict, <<>>, Bool(FALSE), List(<<"SPHERE">>))
\* One free parameter, the temperature of the one disk component
GridDiskOnly ==
    Args("ames-cond",
         << <<"teff", Pair(1, 1)>>, LoggFixed, RadiusFixed, ParallaxFixed,
            <<"disk_teff", Pair(0, 1)>>, <<"disk_radius", Pair(1, 1)>> >>,
         EmptyDict, <<>>, Phot, NoSpec)
NoBounds == [GridPhot EXCEPT !.bounds = EmptyDict, !.bounds_none = TRUE]
NoData == Args("ames-cond", <<Teff>>, EmptyDict, <<>>, Bool(FALSE), Bool(FALSE))

Configs ==
    { GridPhot, GridSpectra, GridIndependent, GridOneDisk, GridTwoDisks,
      ScalingTwoDisks, ScalingOneDisk,
      BinaryTeffOnly, BinaryTeffLogg, BinaryLoggOnly, BinaryBoth,
      BinaryOneDisk, BinaryTwoDisks, BinaryRadiusTwoDisks,
      PlanckOne, PlanckTwo, PlanckTwoFixed, PlanckSpectrum, Powerlaw,
      FixedUnused, FixedScalingParallax, PriorOnTeff, PriorOnly, NoBounds, NoData,
      PlanckNoRadius, PlanckNone, PowerlawNoBounds, NoDataLists, PowerlawSpectraOnly,
      ScalingRadius, ScalingBoth, GridOffset, GridLognormIsm, BinaryLognormIsm,
      BinaryNoneBoth, BinaryTeffPairNone, BinaryTeffNonePair, BinaryLoggPairNone,
      GridTeffNone, GridLoggNone, GridWide, GridAbove, GridFixedBelow, BinaryWide,
      GridInverted, GridParallax, PlanckTwoParallax, PlanckTwoParallaxFixed,
      RatioUniform, RatioNormal, RatioBoth, GridTeffLogg,
      GridOffsetFixed, GridVsini, GridVsiniFixed, GridMass, GridMassFixedLogg,
      GridLognormFree, GridLognormZero, GridUnknownSpectrum, GridInstrumentError,
      GridLoggEmpty, GridLoggNoneList, GridTeffNoneList, PlanckEmpty, GridTeffOnePair,
      BinaryParallaxOne, BinaryIsmOne, BinaryRadiusOne, GridDisksUneven,
      GridCalibShort, GridCalibPair, GridLognormTuples, PriorSigmaZero, PlanckUneven,
      GridInverseOnly, GridInverseInflated, GridCovarianceOnly, BinaryLoggEmptyTuple,
      GridOffsetSpectrum, GridDiskOnly, PriorSecondNone, PriorSecondTuple,
      GridFirstBoundNone }

(***************************************************************************)
(* The state machine: one FitModel object from its construction on.        *)
(*   cfg   the arguments of the constructor                                *)
(*   pc    "new", "failed" (the constructor raised), "ready", "running"    *)
(*         (the engine of a run is at work), "called" (_lnlike_func was    *)
(*         called by it), "transformed" (_prior_transform was), "again"    *)
(*         (the caller constructed a second object)                        *)
(*   obj   the attributes of the object                                    *)
(*   call  the last call of _lnlike_func and its outcome                   *)
(*   prior the last call of _prior_transform and its outcome               *)
(*   engine what the last run passed to the sampling engine, and whether   *)
(*         a run so far was given the keyword prior                        *)
(*   sink  the calls of Database.add_samples                               *)
(*   again the object of a second FitModel(...) with the same argument     *)
(*         objects                                                         *)
(*   mpi   the processes of one run started under MPI (see SpecMPI)        *)
(***************************************************************************)
NoCall == [params |-> <<>>, fault |-> "none", oob |-> "none", ratio |-> 0, buffer |-> FALSE,
           res |-> Result("none", "", FALSE, 0, <<>>, EmptyDict, {}, FALSE)]

NoPrior == [cube |-> <<>>, ndarray |-> FALSE,
            res |-> [exc |-> "", ret |-> <<>>, buffer |-> <<>>, written |-> {}]]

NoEngine == [started |-> FALSE, n_dim |-> 0, names |-> <<>>, prior |-> FALSE]

Faults == {"none", "phot", "spec"}
OutOfBox == {"raise", "nan"}
Ranks == {0, 1}

\* The faults a call can meet: a NaN in the synthetic flux of a filter needs
\* a filter, a NaN in a model spectrum needs a spectrum, and only a grid is
\* interpolated by the collaborator that fails outside its box
FaultsOf(o) ==
    {"none"} \cup (IF Len(o.filter_name) > 0 THEN {"phot"} ELSE {})
             \cup (IF Len(o.spectrum) > 0 THEN {"spec"} ELSE {})

\* params is the buffer of MultiNest (TRUE) or an np.ndarray (FALSE): the
\* two differ in _lnlike_func where a normal prior has the width 0
BuffersOf(o) ==
    IF \E i \in 1..Len(o.normal_prior) : o.normal_prior[i][2].hi = 0 THEN BOOLEAN
    ELSE {FALSE}

OutOfBoxOf(o) == IF o.model \in {"planck", "powerlaw"} THEN {"raise"} ELSE OutOfBox

\* The vectors a sampler passes: len(self.modelpar) values, of which
\* _lnlike_func reads the positions of cube_index only (the others are 0 here)
Vectors(o) ==
    { [i \in 1..Len(o.modelpar) |-> IF i <= Len(o.cube_index) THEN f[i] ELSE 0] :
          f \in [1..Len(o.cube_index) -> Vals] }

\* The unit-cube values followed for an object: 0, 0.5 and 1, and 0.1 as
\* well for an object with a bound that is no whole number and without a
\* normal prior (NormPpf is given at 0, 0.5 and 1)
UnitValuesOf(o) ==
    IF o.normal_prior = EmptyDict
       /\ \E i \in 1..Len(o.bounds) : "float" \in DOMAIN o.bounds[i][2]
    THEN UnitValues \cup {Tenth}
    ELSE UnitValues

\* The unit cubes an engine passes: one value of [0, 1] for every free
\* parameter (positions beyond cube_index hold 0)
UnitCubes(o) ==
    { [i \in 1..Len(o.modelpar) |-> IF i <= Len(o.cube_index) THEN f[i] ELSE Zero] :
          f \in [1..Len(o.cube_index) -> UnitValuesOf(o)] }

\* The processes that mpiexec starts, by their rank in MPI.COMM_WORLD
NProcs == 3
Procs == 0..(NProcs - 1)

\* mpi_rank before its assignment
NoRank == 0 - 1

\* One process of a run: its position in run_multinest (run_ultranest and
\* run_dynesty have the same steps), its local mpi_rank, its self.modelpar and
\* the exception that ended it
Process(at, modelpar) == [at |-> at, mpi_rank |-> NoRank, modelpar |-> modelpar, exc |-> ""]

\* mpi4py: whether 'from mpi4py import MPI' succeeds in the processes;
\* dynesty: the method is run_dynesty; mpi_pool: its argument mpi_pool;
\* exists: os.path.exists(output); made: the processes whose os.mkdir(output)
\* created the folder; saved: the processes that wrote the file of the
\* samples in the folder; writers: the processes that called add_samples;
\* closed: the MPIPool of the master was closed
NoMPI ==
    [mpi4py |-> TRUE, dynesty |-> FALSE, mpi_pool |-> FALSE, exists |-> FALSE, made |-> {},
     saved |-> {}, writers |-> <<>>, closed |-> FALSE,
     proc |-> [p \in Procs |-> Process("idle", <<>>)]]

\* The processes that evaluate the callbacks side by side
NWorkers == 2
Workers == 1..NWorkers

NoTask == [kind |-> "none"]

\* One worker: its position, its own copy self of the object, whether it has
\* served a task before, the task at hand and the outcome of the task
Worker(at, self) ==
    [at |-> at, self |-> self, served |-> FALSE, task |-> NoTask, res |-> NoTask]

NoPool == [w \in Workers |-> Worker("none", None)]

Init ==
    /\ cfg \in Configs
    /\ pc = "new"
    /\ obj = NewObject(cfg)
    /\ call = NoCall
    /\ prior = NoPrior
    /\ engine = NoEngine
    /\ sink = <<>>
    /\ again = NewObject(cfg)
    /\ mpi = NoMPI
    /\ pool = NoPool

\* FitModel.__init__
Construct ==
    /\ pc = "new"
    /\ obj' = Constructed(cfg)
    /\ pc' = IF obj'.exc = "" THEN "ready" ELSE "failed"
    /\ UNCHANGED <<cfg, call, prior, engine, sink, again, mpi, pool>>

\* The arguments of a second FitModel(...) by the caller who passes the same
\* objects again: the dict bounds as the first construction left it, and the
\* dict normal_prior and the list fit_corr, which self.normal_prior and
\* self.fit_corr alias when they are given (lines 515-526)
SameArguments(c, o) ==
    [c EXCEPT !.bounds = ArgBounds(o),
              !.normal_prior = IF c.normal_prior = EmptyDict THEN EmptyDict
                               ELSE o.normal_prior,
              !.fit_corr = IF c.fit_corr = <<>> THEN <<>> ELSE o.fit_corr]

\* The first object after the constructor of the second one has run with the
\* same argument objects c: the dictionary of the bounds, that of the normal
\* priors and the list fit_corr are the ones that the first object refers to
\* (lines 515, 521 and 526), so that it sees what was written into them
SharedArguments(o, c, second) ==
    [o EXCEPT !.bounds = IF o.aliased /\ ~c.bounds_none THEN ArgBounds(second) ELSE @,
              !.arg = IF o.aliased \/ c.bounds_none THEN @ ELSE ArgBounds(second),
              !.normal_prior = IF c.normal_prior = EmptyDict THEN @
                               ELSE second.normal_prior,
              !.fit_corr = IF c.fit_corr = <<>> THEN @ ELSE second.fit_corr]

\* FitModel.__init__ once more, before any run, with the same argument objects
ConstructAgain ==
    /\ pc = "ready"
    /\ obj.runs = 0
    /\ again' = Constructed(SameArguments(cfg, obj))
    /\ obj' = SharedArguments(obj, cfg, again')
    /\ pc' = "again"
    /\ UNCHANGED <<cfg, call, prior, engine, sink, mpi, pool>>

\* One call of _lnlike_func by the engine of a run
LnLike ==
    /\ pc = "running"
    /\ \E params \in Vectors(obj), fault \in FaultsOf(obj), oob \in OutOfBoxOf(obj),
          ratio \in (IF Len(obj.flux_ratio) > 0 THEN RatioVals ELSE {0}),
          buffer \in BuffersOf(obj) :
          call' = [params |-> params, fault |-> fault, oob |-> oob, ratio |-> ratio,
                   buffer |-> buffer,
                   res |-> LnLikeFunc(obj, params, fault, oob, ratio, buffer)]
    /\ obj' = Overwrite(obj, call'.res.written)
    /\ pc' = "called"
    /\ UNCHANGED <<cfg, prior, engine, sink, again, mpi, pool>>

\* One call of _prior_transform: by _lnprior_multinest with the buffer of
\* MultiNest (lines 2185-2207), or with an np.ndarray by the prior functions
\* of UltraNest and Dynesty; self.bounds and self.cube_index are passed
Transform ==
    /\ pc = "running"
    /\ \E cube \in UnitCubes(obj), ndarray \in BOOLEAN :
          prior' = [cube |-> cube, ndarray |-> ndarray,
                    res |-> PriorTransform(obj, cube, obj.bounds, obj.cube_index, ndarray)]
    /\ obj' = Overwrite(obj, prior'.res.written)
    /\ pc' = "transformed"
    /\ UNCHANGED <<cfg, call, engine, sink, again, mpi, pool>>

\* The engine takes the outcome of the call
Return ==
    /\ pc \in {"called", "transformed"}
    /\ pc' = "running"
    /\ call' = NoCall
    /\ prior' = NoPrior
    /\ UNCHANGED <<cfg, obj, engine, sink, again, mpi, pool>>

\* The keyword prior of run_multinest and run_ultranest (deprecated): absent
\* or None, or a dictionary of normal priors
PriorKwargs ==
    { [given |-> FALSE, dict |-> EmptyDict],
      [given |-> TRUE, dict |-> << <<"teff", Pair(2, 1)>> >>] }

\* The start of run_multinest, run_ultranest or run_dynesty, up to the call
\* of the engine.  A prior that is given replaces self.normal_prior (lines
\* 2123-2133 and 2409-2419).  The engine gets len(self.modelpar) as the
\* number of dimensions (lines 2236-2243 and 2718-2854) or self.modelpar as
\* the parameter names (lines 2486-2492); while it runs it calls back
\* _lnlike_func and _prior_transform.
StartRun ==
    /\ pc = "ready"
    /\ obj.runs < MaxRuns
    /\ \E kw \in PriorKwargs :
          /\ obj' = IF kw.given THEN [obj EXCEPT !.normal_prior = kw.dict] ELSE obj
          /\ engine' = [started |-> TRUE, n_dim |-> Len(obj.modelpar),
                        names |-> obj.modelpar, prior |-> engine.prior \/ kw.given]
    /\ pc' = "running"
    /\ UNCHANGED <<cfg, call, prior, sink, again, mpi, pool>>

\* The end of the run, after the engine has returned (lines 2287-2340,
\* repeated by lines 2541-2594 and 2897-2941): the fixed parameters are
\* appended to self.modelpar and to the samples (one row of the sample
\* matrix is followed, its sampled columns hold 0), and the process of MPI
\* rank 0 hands them to Database.add_samples.
EndRun ==
    /\ pc = "running"
    /\ \E rank \in Ranks :
          LET n_dim == Len(obj.modelpar)
              modelpar == obj.modelpar \o Keys(obj.fix_param)
              samples == [i \in 1..n_dim |-> 0]
                         \o [i \in 1..Len(obj.fix_param) |-> obj.fix_param[i][2]]
          IN /\ obj' = [obj EXCEPT !.modelpar = modelpar, !.runs = @ + 1]
             /\ sink' = IF rank = 0
                        THEN Append(sink, [modelpar |-> modelpar, samples |-> samples,
                                           bounds |-> obj.bounds,
                                           normal_prior |-> obj.normal_prior,
                                           fixed_param |-> obj.fix_param])
                        ELSE sink
    /\ pc' = "ready"
    /\ UNCHANGED <<cfg, call, prior, engine, again, mpi, pool>>

Next == Construct \/ ConstructAgain \/ StartRun \/ LnLike \/ Transform \/ Return \/ EndRun

Spec == Init /\ [][Next]_vars

(***************************************************************************)
(* One run under MPI: mpiexec starts NProcs processes, each of which       *)
(* executes the same script, so each holds its own FitModel and calls the  *)
(* same run method.  The processes share the file system and the database. *)
(* The steps are those of run_multinest (lines 2170-2183, 2236-2243 and    *)
(* 2300-2340); run_ultranest (lines 2428-2439, 2486-2594) and run_dynesty  *)
(* (lines 2670-2686, 2692-2941) repeat them, and run_dynesty has the       *)
(* argument mpi_pool (lines 2809-2814).                                    *)
(***************************************************************************)
MPIConfigs == {GridPhot, GridOneDisk}

\* try: from mpi4py import MPI; mpi_rank = MPI.COMM_WORLD.Get_rank()
\* except ModuleNotFoundError: mpi_rank = 0
MpiRank(p) == IF mpi.mpi4py THEN p ELSE 0

At(p, at) == mpi.proc[p].at = at

\* The runs: mpi4py importable or not, the output folder there or not,
\* run_multinest or run_ultranest, or run_dynesty, without or with
\* mpi_pool=True (the MPIPool of schwimmbad is built on mpi4py, so that run
\* is followed with mpi4py only)
InitMPI ==
    /\ cfg \in MPIConfigs
    /\ pc = "ready"
    /\ obj = Constructed(cfg)
    /\ call = NoCall
    /\ prior = NoPrior
    /\ engine = NoEngine
    /\ sink = <<>>
    /\ again = NewObject(cfg)
    /\ mpi \in { [NoMPI EXCEPT !.mpi4py = m, !.exists = e, !.dynesty = d, !.mpi_pool = mp,
                               !.proc = [p \in Procs |-> Process("start", obj.modelpar)]] :
                     m \in BOOLEAN, e \in BOOLEAN, d \in BOOLEAN, mp \in BOOLEAN }
    /\ mpi.mpi_pool => (mpi.dynesty /\ mpi.mpi4py)
    /\ pool = NoPool

\* Lines 2170-2178 (2428-2434, 2670-2677): get the MPI rank of the process
GetRank ==
    \E p \in Procs :
       /\ At(p, "start")
       /\ mpi' = [mpi EXCEPT !.proc[p].mpi_rank = MpiRank(p), !.proc[p].at = "ranked"]
       /\ UNCHANGED <<cfg, pc, obj, call, prior, engine, sink, again, pool>>

\* Line 2182: if mpi_rank == 0 and not os.path.exists(output)
CheckFolder ==
    \E p \in Procs :
       /\ At(p, "ranked")
       /\ mpi' = [mpi EXCEPT !.proc[p].at = IF mpi.proc[p].mpi_rank = 0 /\ ~mpi.exists
                                            THEN "mkdir" ELSE "sampling"]
       /\ UNCHANGED <<cfg, pc, obj, call, prior, engine, sink, again, pool>>

\* Line 2183: os.mkdir(output) raises FileExistsError if the folder was
\* created since the test of line 2182
MakeFolder ==
    \E p \in Procs :
       /\ At(p, "mkdir")
       /\ mpi' = IF mpi.exists
                 THEN [mpi EXCEPT !.proc[p].exc = "FileExistsError", !.proc[p].at = "failed"]
                 ELSE [mpi EXCEPT !.exists = TRUE, !.made = @ \cup {p},
                                  !.proc[p].at = "sampling"]
       /\ UNCHANGED <<cfg, pc, obj, call, prior, engine, sink, again, pool>>

\* Lines 2809-2813 of run_dynesty with mpi_pool=True: pool = MPIPool(); a
\* process that is not the master of the pool enters pool.wait(), where it
\* serves the tasks of the master until the pool is closed
WaitPool ==
    \E p \in Procs :
       /\ At(p, "sampling")
       /\ mpi.mpi_pool
       /\ mpi.proc[p].mpi_rank # 0
       /\ mpi' = [mpi EXCEPT !.proc[p].at = "waiting"]
       /\ UNCHANGED <<cfg, pc, obj, call, prior, engine, sink, again, pool>>

\* run_dynesty does not close the pool: the master closes it when its
\* process ends (MPIPool registers close() to run at exit), after
\* run_dynesty has returned or raised
ClosePool ==
    \E p \in Procs :
       /\ mpi.mpi_pool
       /\ ~mpi.closed
       /\ mpi.proc[p].mpi_rank = 0
       /\ mpi.proc[p].at \in {"done", "failed"}
       /\ mpi' = [mpi EXCEPT !.closed = TRUE]
       /\ UNCHANGED <<cfg, pc, obj, call, prior, engine, sink, again, pool>>

\* Lines 2813-2814: pool.wait() returns when the pool is closed, and the
\* process ends with sys.exit(0), before any sampler is made
LeavePool ==
    \E p \in Procs :
       /\ At(p, "waiting")
       /\ mpi.closed
       /\ mpi' = [mpi EXCEPT !.proc[p].exc = "SystemExit", !.proc[p].at = "exited"]
       /\ UNCHANGED <<cfg, pc, obj, call, prior, engine, sink, again, pool>>

\* Lines 2236-2243 (2486-2497, 2692-2880): the process starts the engine with
\* len(self.modelpar) dimensions and waits in it; the callbacks of the engine
\* see self.modelpar of the process as it is here
StartEngine ==
    \E p \in Procs :
       /\ At(p, "sampling")
       /\ mpi.mpi_pool => mpi.proc[p].mpi_rank = 0
       /\ engine' = [started |-> TRUE, n_dim |-> Len(mpi.proc[p].modelpar),
                     names |-> mpi.proc[p].modelpar, prior |-> FALSE]
       /\ mpi' = [mpi EXCEPT !.proc[p].at = "engine"]
       /\ UNCHANGED <<cfg, pc, obj, call, prior, sink, again, pool>>

\* Lines 2300-2308 (2554-2562, 2877-2917): after the engine has returned, the
\* fixed parameters are appended to self.modelpar of the process.  Before
\* that, run_dynesty writes the samples to a file of the output folder in
\* every process (np.savetxt, line 2879), which raises FileNotFoundError if
\* the folder is not there.
Sample ==
    \E p \in Procs :
       /\ At(p, "engine")
       /\ mpi' = IF mpi.dynesty /\ ~mpi.exists
                 THEN [mpi EXCEPT !.proc[p].exc = "FileNotFoundError", !.proc[p].at = "failed"]
                 ELSE [mpi EXCEPT !.proc[p].modelpar = @ \o Keys(obj.fix_param),
                                  !.proc[p].at = "sampled",
                                  !.saved = IF mpi.dynesty THEN @ \cup {p} ELSE @]
       /\ UNCHANGED <<cfg, pc, obj, call, prior, engine, sink, again, pool>>

\* Lines 2310-2340 (2564-2594): the rank is taken again, and the process with
\* mpi_rank == 0 calls Database.add_samples (run_dynesty tests the rank taken
\* at the start, lines 2921-2941, which is the same number)
Store ==
    \E p \in Procs :
       /\ At(p, "sampled")
       /\ LET modelpar == mpi.proc[p].modelpar
              n_dim == Len(modelpar) - Len(obj.fix_param)
              samples == [i \in 1..n_dim |-> 0]
                         \o [i \in 1..Len(obj.fix_param) |-> obj.fix_param[i][2]]
          IN IF MpiRank(p) = 0
             THEN /\ sink' = Append(sink, [modelpar |-> modelpar, samples |-> samples,
                                           bounds |-> obj.bounds,
                                           normal_prior |-> obj.normal_prior,
                                           fixed_param |-> obj.fix_param])
                  /\ mpi' = [mpi EXCEPT !.proc[p].mpi_rank = 0, !.proc[p].at = "done",
                                        !.writers = Append(@, p)]
             ELSE /\ sink' = sink
                  /\ mpi' = [mpi EXCEPT !.proc[p].mpi_rank = MpiRank(p),
                                        !.proc[p].at = "done"]
       /\ UNCHANGED <<cfg, pc, obj, call, prior, engine, again, pool>>

NextMPI ==
    GetRank \/ CheckFolder \/ MakeFolder \/ WaitPool \/ ClosePool \/ LeavePool
    \/ StartEngine \/ Sample \/ Store

SpecMPI == InitMPI /\ [][NextMPI]_vars

(***************************************************************************)
(* The callbacks in several processes at once: the workers of              *)
(* dynesty.pool.Pool(n_pool, self._lnlike_func, self._prior_transform,     *)
(* ptform_args=[self.bounds, self.cube_index]) of lines 2694-2699, each of *)
(* which is started with a copy of the two bound methods and so of the     *)
(* object, or the processes of a run under MPI, each of which has          *)
(* constructed its own object.  No memory is shared: a worker is given its *)
(* input, evaluates the callback on its own copy, and hands the outcome    *)
(* back.  The steps of the workers interleave in every order.              *)
(***************************************************************************)
\* The arguments followed: an object with one free parameter, the flux
\* offset that _lnlike_func adds in place to the model spectrum
WorkerConfigs == {GridOffsetSpectrum}

\* The calls of _lnlike_func that a worker is asked for
LnLikeTasks(o) ==
    { [kind |-> "lnlike", params |-> params, fault |-> fault] :
          params \in Vectors(o), fault \in FaultsOf(o) }

\* The calls of _prior_transform that a worker is asked for: the cube is an
\* np.ndarray (the engines UltraNest and Dynesty) or the buffer of MultiNest
PriorTasks(o) ==
    { [kind |-> "ptform", cube |-> cube, ndarray |-> ndarray] :
          cube \in UnitCubes(o), ndarray \in BOOLEAN }

\* The outcome of a task on the object o of a worker: what the callback
\* returns, and the vector or cube of the worker after the call
Served(o, task) ==
    IF task.kind = "lnlike"
    THEN LET res == LnLikeFunc(o, task.params, task.fault, "raise", 0, FALSE)
         IN [out |-> res, after |-> ParamsAfter(task.params, res)]
    ELSE LET res == PriorTransform(o, task.cube, o.bounds, o.cube_index, task.ndarray)
         IN [out |-> res, after |-> res.buffer]

InitWorkers ==
    /\ cfg \in WorkerConfigs
    /\ pc = "running"
    /\ obj = Constructed(cfg)
    /\ call = NoCall
    /\ prior = NoPrior
    /\ engine = [started |-> TRUE, n_dim |-> Len(obj.modelpar), names |-> obj.modelpar,
                 prior |-> FALSE]
    /\ sink = <<>>
    /\ again = NewObject(cfg)
    /\ mpi = NoMPI
    /\ pool = [w \in Workers |-> Worker("start", None)]

\* A worker is started with its copy of the object
StartWorker ==
    \E w \in Workers :
       /\ pool[w].at = "start"
       /\ pool' = [pool EXCEPT ![w].at = "idle", ![w].self = obj]
       /\ UNCHANGED <<cfg, pc, obj, call, prior, engine, sink, again, mpi>>

\* A worker that waits is given a task
Submit ==
    \E w \in Workers :
       /\ pool[w].at = "idle"
       /\ \E task \in LnLikeTasks(pool[w].self) \cup PriorTasks(pool[w].self) :
              pool' = [pool EXCEPT ![w].at = "busy", ![w].task = task]
       /\ UNCHANGED <<cfg, pc, obj, call, prior, engine, sink, again, mpi>>

\* The worker evaluates the callback on its copy of the object, which is
\* left with what the call wrote into it
Serve ==
    \E w \in Workers :
       /\ pool[w].at = "busy"
       /\ LET res == Served(pool[w].self, pool[w].task)
          IN pool' = [pool EXCEPT ![w].at = "done", ![w].res = res,
                                  ![w].self = Overwrite(@, res.out.written)]
       /\ UNCHANGED <<cfg, pc, obj, call, prior, engine, sink, again, mpi>>

\* The outcome is taken from the worker, which waits for the next task
Collect ==
    \E w \in Workers :
       /\ pool[w].at = "done"
       /\ pool' = [pool EXCEPT ![w].at = "idle", ![w].served = TRUE,
                               ![w].task = NoTask, ![w].res = NoTask]
       /\ UNCHANGED <<cfg, pc, obj, call, prior, engine, sink, again, mpi>>

NextWorkers == StartWorker \/ Submit \/ Serve \/ Collect

SpecWorkers == InitWorkers /\ [][NextWorkers]_vars

(***************************************************************************)
(* The properties.                                                         *)
(***************************************************************************)
Called == pc = "called"

\* self.normal_prior is the dictionary of the constructor: no run was given
\* the keyword prior
PriorKept == ~engine.prior

\* The value of a parameter in the call at hand
Sampled(name) == Get(AllParam(obj, call.params), name)

Known(name) == Has(AllParam(obj, call.params), name)

\* C1: every value returned by _lnlike_func is a finite float or -inf, never
\* NaN: a NaN of the model flux is left out of the photometric terms and of
\* the three kinds of spectroscopic terms.
C1_NeverNaN == Called => call.res.kind # "nan"

\* C2: _lnlike_func never raises for a sampled vector: a vector outside the
\* box of the grid and a singular covariance matrix give -inf.
C2_NeverRaises == Called => call.res.kind # "raise"

\* C3: with one disk component, a vector with disk_teff above the teff of
\* the atmosphere or disk_radius below its radius gets -inf.
C3_OneDiskOrdering ==
    (/\ Called
     /\ obj.n_disk = 1
     /\ Known("teff") /\ Known("radius") /\ Known("disk_teff") /\ Known("disk_radius")
     /\ \/ Sampled("disk_teff") > Sampled("teff")
        \/ Sampled("disk_radius") < Sampled("radius"))
    => call.res.kind = "neginf"

\* The chain teff, disk_teff_0, ..., and the chain radius, disk_radius_0, ...
DiskChain(base) ==
    <<base>> \o [i \in 1..obj.n_disk |-> Sfx("disk_" \o base, i - 1)]

ChainKnown(chain) == \A i \in 1..Len(chain) : Known(chain[i])

StrictlyOrdered ==
    LET t == DiskChain("teff")
        r == DiskChain("radius")
    IN /\ ChainKnown(t) /\ ChainKnown(r)
       /\ \A i \in 1..(Len(t) - 1) : Sampled(t[i]) > Sampled(t[i + 1])
       /\ \A i \in 1..(Len(r) - 1) : Sampled(r[i]) < Sampled(r[i + 1])

\* C4: with N > 1 disk components, every vector that passes the ordering
\* check has strictly decreasing temperatures and strictly increasing radii,
\* from the atmosphere outwards; equal neighbours are rejected.
C4_StrictOrdering ==
    (Called /\ obj.n_disk > 1 /\ call.res.order_ok) => StrictlyOrdered

\* C5: wherever disk components are registered, the ordering check ends in
\* -inf or lets the vector pass; it never raises.
C5_OrderingNeverRaises ==
    (Called /\ obj.n_disk > 0) => (call.res.order_ok \/ call.res.kind = "neginf")

\* The names teff_0, radius_0, ..., parallax of n blackbody components
PlanckList(n) ==
    [i \in 1..(2 * n) |-> IF i % 2 = 1 THEN Sfx("teff", (i - 1) \div 2)
                                       ELSE Sfx("radius", (i - 2) \div 2)]
    \o <<"parallax">>

PlanckViolation ==
    \E i \in 0..(obj.n_planck - 2) :
        \/ Sampled(Sfx("teff", i + 1)) > Sampled(Sfx("teff", i))
        \/ Sampled(Sfx("radius", i)) > Sampled(Sfx("radius", i + 1))

\* The sequence s, n times
RECURSIVE Repeated(_, _)
Repeated(s, n) == IF n = 0 THEN <<>> ELSE s \o Repeated(s, n - 1)

HasConstantColumn(entry, name, value) ==
    /\ Len(entry.samples) = Len(entry.modelpar)
    /\ Count(entry.modelpar, name) = 1
    /\ \A j \in 1..Len(entry.modelpar) :
           entry.modelpar[j] = name => entry.samples[j] = value

\* C7: for every key of the resolved bounds with lo == hi the construction
\* completes, the parameter is absent from modelpar, bounds and cube_index
\* and is in fix_param with the value lo, and the samples handed to
\* Database.add_samples have one column for it holding that value.
C7_FixedParameters ==
    (pc # "new" /\ Len(obj.fix_param) > 0)
    => /\ obj.exc = ""
       /\ \A i \in 1..Len(obj.fix_param) :
              LET name == obj.fix_param[i][1]
              IN /\ obj.runs = 0 => ~InList(obj.modelpar, name)
                 /\ ~Has(obj.bounds, name)
                 /\ ~Has(obj.cube_index, name)
                 /\ \A e \in 1..Len(sink) :
                        HasConstantColumn(sink[e], name, obj.fix_param[i][2])

\* C8: after construction each name is once in modelpar, cube_index maps
\* each name to its position in modelpar, each free parameter has a prior in
\* bounds or in normal_prior and not in both, and no fixed parameter has a
\* cube index.
C8_RegistryInvariant ==
    (pc \in {"ready", "running", "called"} /\ obj.runs = 0 /\ PriorKept)
    => /\ \A i, j \in 1..Len(obj.modelpar) : obj.modelpar[i] = obj.modelpar[j] => i = j
       /\ Len(obj.cube_index) = Len(obj.modelpar)
       /\ \A i \in 1..Len(obj.modelpar) : obj.cube_index[i] = <<obj.modelpar[i], i - 1>>
       /\ \A i \in 1..Len(obj.modelpar) :
              Has(obj.bounds, obj.modelpar[i]) # Has(obj.normal_prior, obj.modelpar[i])
       /\ \A i \in 1..Len(obj.fix_param) : ~Has(obj.cube_index, obj.fix_param[i][1])

\* bounds = {g: ((a, b), (c, d))}: two components are requested for g
SplitRequested(c, g) ==
    /\ ~c.bounds_none /\ c.model \notin NonInterpModel
    /\ Has(c.bounds, g)
    /\ Get(c.bounds, g).t = "tuple"
    /\ IsTuple(Item(Get(c.bounds, g), 0)) /\ IsTuple(Item(Get(c.bounds, g), 1))

\* The prior of a parameter after construction is the bound b
ResolvedAs(name, b) ==
    \/ Has(obj.bounds, name) /\ Get(obj.bounds, name) = b
    \/ Has(obj.fix_param, name) /\ b.lo = b.hi /\ Get(obj.fix_param, name) = b.lo

\* C9: bounds = {'teff': ((a, b), (c, d))} alone makes the construction
\* complete in binary mode with teff_0 bounded by (a, b) and teff_1 by
\* (c, d), and no bare teff in modelpar, bounds or cube_index.
C9_TeffOnlySplit ==
    (pc # "new" /\ SplitRequested(cfg, "teff") /\ Keys(cfg.bounds) = <<"teff">>)
    => /\ obj.exc = ""
       /\ obj.binary
       /\ obj.runs = 0 => (InList(obj.modelpar, "teff_0") /\ InList(obj.modelpar, "teff_1"))
       /\ ResolvedAs("teff_0", Item(Get(cfg.bounds, "teff"), 0))
       /\ ResolvedAs("teff_1", Item(Get(cfg.bounds, "teff"), 1))
       /\ ~InList(obj.modelpar, "teff")
       /\ ~Has(obj.bounds, "teff")
       /\ ~Has(obj.cube_index, "teff")

\* C10: in binary mode every grid parameter without a two-component bound
\* is split into <key>_0 and <key>_1 that carry the single bound (the
\* user's or the extent of the grid), wherever it stands in the order of the
\* grid, and modelpar holds no unsuffixed grid parameter.
C10_OthersSplit ==
    (pc # "new" /\ \E i \in 1..Len(GridParameters) : SplitRequested(cfg, GridParameters[i]))
    => /\ obj.exc = ""
       /\ obj.binary
       /\ \A i \in 1..Len(GridParameters) :
              LET g == GridParameters[i]
                  single == IF Has(cfg.bounds, g) THEN Get(cfg.bounds, g)
                            ELSE Get(GridBounds, g)
              IN /\ ~InList(obj.modelpar, g)
                 /\ ~SplitRequested(cfg, g)
                    => (ResolvedAs(Sfx(g, 0), single) /\ ResolvedAs(Sfx(g, 1), single))

\* bounds = {g: (x, y)} with x or y None: the grid extent is requested for
\* a component of g
NoneRequested(c, g) ==
    /\ ~c.bounds_none /\ c.model \notin NonInterpModel
    /\ Has(c.bounds, g)
    /\ Get(c.bounds, g).t = "tuple"
    /\ (IsNone(Item(Get(c.bounds, g), 0)) \/ IsNone(Item(Get(c.bounds, g), 1)))

\* C11: for a two-component bound on a grid parameter with a None component,
\* (None, None), ((a, b), None) or (None, (c, d)), the construction completes
\* in binary mode, each None component is bounded by the grid extent of the
\* parameter and each other component keeps its own bound.
C11_NoneComponents ==
    (pc # "new" /\ \E i \in 1..Len(GridParameters) : NoneRequested(cfg, GridParameters[i]))
    => /\ obj.exc = ""
       /\ obj.binary
       /\ \A i \in 1..Len(GridParameters), k \in {0, 1} :
              LET g == GridParameters[i]
              IN NoneRequested(cfg, g)
                 => ResolvedAs(Sfx(g, k),
                               IF IsNone(Item(Get(cfg.bounds, g), k)) THEN Get(GridBounds, g)
                               ELSE Item(Get(cfg.bounds, g), k))

Transformed == pc = "transformed"

\* The entries of cube_index whose parameter has no normal prior and a
\* bound (lo, hi)
UniformEntries ==
    { i \in 1..Len(obj.cube_index) :
          /\ ~Has(obj.normal_prior, obj.cube_index[i][1])
          /\ Has(obj.bounds, obj.cube_index[i][1])
          /\ Get(obj.bounds, obj.cube_index[i][1]).t = "pair" }

BoundOf(i) == Get(obj.bounds, obj.cube_index[i][1])

\* The unit-cube value given for entry i of cube_index, and the value returned
CubeIn(i) == prior.cube[obj.cube_index[i][2] + 1]

CubeOut(i) == prior.res.ret[obj.cube_index[i][2] + 1]

\* lo + (hi - lo) * u in real arithmetic
ExactUniform(b, u) ==
    ExactAdd(Lower(b),
             Canon(ExactAdd(Upper(b), FlNeg(Lower(b))).neg # u.neg,
                   MulBits(ExactAdd(Upper(b), FlNeg(Lower(b))).m, u.m),
                   ExactAdd(Upper(b), FlNeg(Lower(b))).e + u.e))

FiniteEntries ==
    { i \in UniformEntries : ~IsInf(Lower(BoundOf(i))) /\ ~IsInf(Upper(BoundOf(i))) }

\* The entries with the lower bound -inf
UnboundedBelow == { i \in UniformEntries : Lower(BoundOf(i)) = Infinity(TRUE) }

\* The number is a double: its significand has 53 bits at most
IsDouble(x) == Len(x.m) <= Precision

\* hi - lo and x * u in real arithmetic
ExactRange(b) == ExactAdd(Upper(b), FlNeg(Lower(b)))

ExactProduct(x, u) == Canon(x.neg # u.neg, MulBits(x.m, u.m), x.e + u.e)

NormalEntries ==
    { i \in 1..Len(obj.cube_index) : Has(obj.normal_prior, obj.cube_index[i][1]) }

\* The value at u of the inverse CDF of the normal distribution (mean, sigma)
\* and the value at u of the affine map of the bound b are told apart at
\* u = 0 and at u = 1: -inf and +inf against lo and hi
\* (a normal distribution of the width 0 has no inverse CDF: NaN)
IsNormalValue(i) ==
    IF Get(obj.normal_prior, obj.cube_index[i][1]).hi <= 0 THEN IsNaN(CubeOut(i))
    ELSE /\ CubeIn(i) = Zero => (CubeOut(i).neg /\ CubeOut(i).m = <<>> /\ CubeOut(i).e = 1)
         /\ CubeIn(i) = Half
            => CubeOut(i) = FromInt(Get(obj.normal_prior, obj.cube_index[i][1]).lo)
         /\ CubeIn(i) = FromInt(1)
            => (~CubeOut(i).neg /\ CubeOut(i).m = <<>> /\ CubeOut(i).e = 1)

\* C13: in a call of _prior_transform every parameter of cube_index that
\* has a normal prior gets the inverse CDF of the normal distribution, also
\* if bounds holds the same name, and every other parameter gets the affine
\* map of its bound: no position is transformed by both rules.
C13_OneRule ==
    (Transformed /\ prior.res.exc = "")
    => /\ \A i \in NormalEntries : IsNormalValue(i)
       /\ \A i \in 1..Len(obj.cube_index) :
              i \notin NormalEntries
              => /\ i \in UniformEntries
                 /\ CubeOut(i) = FlAdd(Lower(BoundOf(i)),
                                       FlMul(FlSub(Upper(BoundOf(i)), Lower(BoundOf(i))),
                                             CubeIn(i)))

\* A parameter with a normal prior and an entry in bounds got -inf at u = 0,
\* not the lower bound, in a call that mapped another parameter with u = 1
\* to its upper bound
C13_NormalOverBounds ==
    /\ Transformed /\ prior.res.exc = ""
    /\ \E i \in NormalEntries :
           /\ Has(obj.bounds, obj.cube_index[i][1])
           /\ CubeIn(i) = Zero
           /\ CubeOut(i) = Infinity(TRUE)
    /\ \E i \in UniformEntries : CubeIn(i) = FromInt(1) /\ CubeOut(i) = Upper(BoundOf(i))

\* The physical value of entry i of cube_index for the unit-cube value given
Physical(i) ==
    IF i \in NormalEntries
    THEN NormPpf(CubeIn(i), Get(obj.normal_prior, obj.cube_index[i][1]))
    ELSE Uniform(BoundOf(i), CubeIn(i))

\* The array a holds the physical values of all parameters of cube_index
HoldsPhysical(a) ==
    /\ Len(a) = Len(prior.cube)
    /\ \A i \in 1..Len(obj.cube_index) : a[obj.cube_index[i][2] + 1] = Physical(i)

\* C14: a call of _prior_transform with an np.ndarray returns a new array
\* with the physical values and leaves the caller's array as it was; a call
\* with any other buffer (the pointer of MultiNest) leaves the physical
\* values in the caller's buffer, where the engine reads them after
\* _lnprior_multinest has dropped the return value.
C14_BufferConventions ==
    (Transformed /\ prior.res.exc = "")
    => /\ prior.ndarray => (prior.res.buffer = prior.cube /\ HoldsPhysical(prior.res.ret))
       /\ ~prior.ndarray => HoldsPhysical(prior.res.buffer)

\* A call with the buffer of MultiNest changed the buffer: a position given
\* as u = 1 holds the upper bound of its parameter after the call
C14_WrittenInPlace ==
    /\ Transformed /\ prior.res.exc = "" /\ ~prior.ndarray
    /\ prior.res.buffer # prior.cube
    /\ \E i \in UniformEntries :
           /\ CubeIn(i) = FromInt(1)
           /\ Upper(BoundOf(i)) # FromInt(1)
           /\ prior.res.buffer[obj.cube_index[i][2] + 1] = Upper(BoundOf(i))

\* C15: in every run on an instance, the first and the later ones, the
\* number of dimensions and the parameter names passed to the engine are the
\* free parameters, as many as cube_index holds; a run changes neither the
\* list of free parameters nor cube_index.
C15_RunDimensions ==
    (pc \in {"ready", "running", "called", "transformed"})
    => /\ obj.modelpar = Keys(obj.cube_index)
       /\ obj.cube_index = Constructed(cfg).cube_index
       /\ engine.started
          => (engine.n_dim = Len(obj.cube_index) /\ engine.names = Keys(obj.cube_index))

\* The call of the callback alone that the task of worker w asks for: on
\* the object of the process that started the workers, which is as the
\* constructor left it and on which no callback is evaluated
Isolated(w) == Served(obj, pool[w].task)

\* Worker w has evaluated a task of the kind
Done(w, kind) == pool[w].at = "done" /\ pool[w].task.kind = kind

\* C16 as stated: the calls of _lnlike_func and _prior_transform leave the
\* setup state of the object of every worker as it was and do not modify the
\* vector they are given, and every call in the interleaving returns what
\* the call alone returns.
C16_NothingModified ==
    \A w \in Workers :
        /\ pool[w].at # "start" => pool[w].self = obj
        /\ Done(w, "lnlike") => pool[w].res.after = pool[w].task.params
        /\ Done(w, "ptform") => pool[w].res.after = pool[w].task.cube
        /\ pool[w].at = "done" => pool[w].res.out = Isolated(w).out

\* C16 amended: the calls of _lnlike_func and _prior_transform leave the
\* setup state of the object of every worker as it was, after every number
\* of calls; _lnlike_func does not modify its vector and _prior_transform
\* does not modify a cube that is an np.ndarray (a buffer of another kind
\* holds the physical values after the call); every call in an interleaving
\* of the workers returns what the call alone returns.
C16_SetupUnchanged ==
    \A w \in Workers :
        /\ pool[w].at # "start" => pool[w].self = obj
        /\ Done(w, "lnlike") => pool[w].res.after = pool[w].task.params
        /\ (Done(w, "ptform") /\ pool[w].task.ndarray)
           => pool[w].res.after = pool[w].task.cube
        /\ (Done(w, "ptform") /\ ~pool[w].task.ndarray /\ pool[w].res.out.exc = "")
           => pool[w].res.after = pool[w].res.out.ret
        /\ pool[w].at = "done" => pool[w].res.out = Isolated(w).out

\* A worker that has served a task before has evaluated _lnlike_func with
\* the flux offset added in place, while another worker, which has served a
\* task before as well, has evaluated _prior_transform on the buffer of
\* MultiNest, which was overwritten
C16_BufferOverwritten ==
    \E v, w \in Workers :
        /\ v # w /\ pool[v].served /\ pool[w].served
        /\ Done(v, "lnlike") /\ pool[v].res.out.kind = "value"
        /\ Has(pool[v].res.out.applied, "flux_offset")
        /\ Done(w, "ptform") /\ ~pool[w].task.ndarray /\ pool[w].res.out.exc = ""
        /\ pool[w].res.after # pool[w].task.cube

\* The parameters registered by the constructor: the free and the fixed ones
Registered == obj.modelpar \o Keys(obj.fix_param)

IsmNames == {"ism_ext", "ism_ext_0", "ism_ext_1", "ism_red", "phot_ext_NACO.H"}

LognormNames == {"lognorm_radius", "lognorm_sigma", "lognorm_ext"}

PowerlawNames == {"powerlaw_max", "powerlaw_exp", "powerlaw_ext"}

Uses(names) == \E i \in 1..Len(Registered) : Registered[i] \in names

\* C17: after construction the registered parameters (modelpar and
\* fix_param) belong to at most one of the extinction models: ISM
\* extinction, log-normal grains, power-law grains.
C17_OneExtinctionModel ==
    (pc \in {"ready", "running", "called", "transformed"})
    => /\ ~(Uses(IsmNames) /\ Uses(LognormNames))
       /\ ~(Uses(IsmNames) /\ Uses(PowerlawNames))
       /\ ~(Uses(LognormNames) /\ Uses(PowerlawNames))

\* bounds asks for a direct flux scaling together with radius or parallax,
\* or for both kinds of direct flux scaling
ScalingConflict(c) ==
    /\ ~c.bounds_none /\ c.model \notin NonInterpModel
    /\ \/ /\ (Has(c.bounds, "flux_scaling") \/ Has(c.bounds, "log_flux_scaling"))
          /\ (Has(c.bounds, "radius") \/ Has(c.bounds, "parallax"))
       \/ (Has(c.bounds, "flux_scaling") /\ Has(c.bounds, "log_flux_scaling"))

\* C18: a bounds dictionary with a direct flux scaling and radius or
\* parallax, or with flux_scaling and log_flux_scaling, makes the
\* construction fail; no such configuration is accepted with one of the
\* entries ignored.
C18_ScalingConflictRejected ==
    (pc # "new" /\ ScalingConflict(cfg)) => obj.exc # ""

\* C19: the construction raises whenever the final selection of the data
\* holds neither photometry nor spectra, for inc_phot and inc_spec False or
\* empty lists and also when the selected spectra are discarded for
\* model = 'powerlaw': no object exists with objphot and spectrum both empty.
C19_NoDataRejected ==
    /\ (pc # "new" /\ Falsy(cfg.inc_phot) /\ Falsy(cfg.inc_spec)) => obj.exc # ""
    /\ (pc \in {"ready", "running", "called", "transformed"})
       => (Len(obj.filter_name) > 0 \/ Len(obj.spectrum) > 0)

\* The bounds that the model family requires
RequiredBounds(model) ==
    IF model = "planck" THEN <<"teff", "radius">>
    ELSE IF model = "powerlaw" THEN <<"log_powerlaw_a", "log_powerlaw_b", "log_powerlaw_c">>
    ELSE <<>>

\* bounds is None or lacks a bound that the model family requires
RequiredMissing(c) ==
    /\ Len(RequiredBounds(c.model)) > 0
    /\ \/ c.bounds_none
       \/ \E i \in 1..Len(RequiredBounds(c.model)) : ~Has(c.bounds, RequiredBounds(c.model)[i])

\* C20: the construction fails with a ValueError whenever bounds is None or
\* lacks teff or radius for model = 'planck', or log_powerlaw_a,
\* log_powerlaw_b or log_powerlaw_c for model = 'powerlaw'; no object is
\* constructed whose list of free parameters holds a name with no prior.
C20_RequiredBounds ==
    /\ (pc # "new" /\ RequiredMissing(cfg)) => obj.exc = "ValueError"
    /\ (pc \in {"ready", "running", "called", "transformed"} /\ obj.runs = 0 /\ PriorKept)
       => \A i \in 1..Len(obj.modelpar) :
              Has(obj.bounds, obj.modelpar[i]) \/ Has(obj.normal_prior, obj.modelpar[i])

\* bounds is None, or the grid parameter g is missing from bounds or None in it
DefaultRequested(c, g) ==
    c.bounds_none \/ ~Has(c.bounds, g) \/ IsNone(Get(c.bounds, g))

\* A grid model with data selected, whose bounds (if any) hold grid
\* parameters, the radius and the parallax only, each None or one (lo, hi)
PlainGrid(c) ==
    /\ c.model \notin NonInterpModel
    /\ ~(Falsy(c.inc_phot) /\ Falsy(c.inc_spec))
    /\ \A i \in 1..Len(c.bounds) :
           /\ InList(GridParameters \o <<"radius", "parallax">>, c.bounds[i][1])
           /\ (IsNone(c.bounds[i][2]) \/ c.bounds[i][2].t = "pair")

\* C21: with bounds = None and a grid model the construction completes and
\* every mandatory grid parameter is bounded by the extent of the grid, the
\* radius by (0.5, 5.0); a mandatory parameter that is missing from bounds
\* or None in it is bounded by the extent of the grid as well.
C21_GridDefaults ==
    (pc # "new" /\ PlainGrid(cfg)
       /\ \E i \in 1..Len(GridParameters) : DefaultRequested(cfg, GridParameters[i]))
    => /\ obj.exc = ""
       /\ \A i \in 1..Len(GridParameters) :
              DefaultRequested(cfg, GridParameters[i])
              => ResolvedAs(GridParameters[i], Get(GridBounds, GridParameters[i]))
       /\ cfg.bounds_none => ResolvedAs("radius", DefaultRadiusBound)

\* The bound b lies within the extent g of the grid
WithinGrid(b, g) ==
    /\ b.t = "pair"
    /\ g.lo <= b.lo /\ b.lo <= g.hi
    /\ g.lo <= b.hi /\ b.hi <= g.hi

Constructed_ok == pc \in {"ready", "running", "called", "transformed"} /\ PriorKept

\* C22: after the construction with a grid model every bound of a mandatory
\* grid parameter (key, or key_0 and key_1 in binary mode) lies within the
\* extent of the grid for that parameter, a requested bound outside of it
\* having been replaced by the end of the extent.
C22_WithinGrid ==
    (Constructed_ok /\ obj.model \notin NonInterpModel)
    => \A i \in 1..Len(GridBounds) :
           \A name \in {GridBounds[i][1], Sfx(GridBounds[i][1], 0), Sfx(GridBounds[i][1], 1)} :
               /\ Has(obj.bounds, name)
                  => WithinGrid(Get(obj.bounds, name), GridBounds[i][2])
               /\ Has(obj.fix_param, name)
                  => LET v == Get(obj.fix_param, name)
                     IN WithinGrid(Pair(v, v), GridBounds[i][2])

\* lo < hi for a bound of integers or of floats
ProperBound(b) ==
    /\ b.t = "pair"
    /\ IF "float" \in DOMAIN b
       THEN FlSub(b.hi, b.lo) # Zero /\ ~FlSub(b.hi, b.lo).neg
       ELSE b.lo < b.hi

\* C23: after the construction every entry (lo, hi) left in bounds has
\* lo < hi, the entries with lo == hi having been moved to fix_param; this
\* holds for the entries of the user, the defaults, the clipped, the split
\* and the log-transformed entries.
C23_OrderedBounds ==
    Constructed_ok => \A i \in 1..Len(obj.bounds) : ProperBound(obj.bounds[i][2])

\* C24: after the construction, for every model (planck with several
\* components included), normal_prior['parallax'] is the catalogued
\* (parallax, uncertainty) of the object exactly when the parallax is a free
\* parameter that the user neither fixed nor bounded; a uniform bound of the
\* user for the parallax is kept as its prior, with no normal prior attached.
C24_ParallaxPrior ==
    Constructed_ok
    => /\ (Has(obj.normal_prior, "parallax")
           /\ Get(obj.normal_prior, "parallax") = ObjParallax)
          <=> (Has(obj.cube_index, "parallax") /\ ~Has(cfg.bounds, "parallax"))
       /\ (Has(cfg.bounds, "parallax") /\ Has(obj.cube_index, "parallax"))
          => /\ Has(obj.bounds, "parallax")
             /\ Get(obj.bounds, "parallax") = Get(cfg.bounds, "parallax")
             /\ ~Has(obj.normal_prior, "parallax")

\* The vector of the call at hand lies within the grid for the two stars, so
\* that the two fluxes and their ratio are numbers
WithinBox ==
    LET pd == ParamDict(obj.param_interp.items, AllParam(obj, call.params), 1)
    IN pd.err = "" /\ InBox(obj, pd.d, 0) /\ InBox(obj, pd.d, 1)

\* The flux ratio of the call at hand is outside the uniform prior of key
RatioOutside(key) ==
    /\ Has(obj.bounds, key)
    /\ WithinBox
    /\ (call.ratio < Get(obj.bounds, key).lo \/ call.ratio > Get(obj.bounds, key).hi)

\* The keys ratio_<filter> that the configurations use, with their filter
RatioKeys == { <<"ratio_NACO.H", "NACO.H">> }

\* C25: if ratio_<filter> is in bounds as (lo, hi), _lnlike_func returns
\* -inf for every vector whose flux ratio in that filter is below lo or
\* above hi, whatever normal_prior holds; if ratio_<filter> is in
\* normal_prior, the term of the normal prior is added once.
C25_RatioPrior ==
    Called
    => \A k \in RatioKeys :
           /\ RatioOutside(k[1]) => call.res.kind = "neginf"
           /\ (Has(obj.normal_prior, k[1]) /\ call.res.kind = "value")
              => Count(call.res.terms, "prior:" \o k[1]) = 1

\* A grid model with one component, bounds (lo < hi) for teff and logg and
\* for nothing else, one filter, no spectrum and no other option
Scenario(c) ==
    /\ c.model \notin NonInterpModel /\ ~c.bounds_none
    /\ Len(c.bounds) = 2 /\ Has(c.bounds, "teff") /\ Has(c.bounds, "logg")
    /\ \A i \in 1..Len(c.bounds) : ProperBound(c.bounds[i][2])
    /\ c.normal_prior = EmptyDict /\ c.fit_corr = <<>> /\ c.ext_filter = "None"
    /\ c.inc_phot.t = "list" /\ Len(c.inc_phot.items) = 1
    /\ Falsy(c.inc_spec)

\* C26: for a single-component grid model with the mandatory parameters
\* teff and logg, bounds for teff and logg only, one filter and no other
\* option, the construction gives the parameter list teff, logg, radius,
\* parallax in that order, the bound (0.5, 5.0) for the radius, the normal
\* prior of the catalogue for the parallax, and the cube indices 0, 1, 2, 3.
C26_ScenarioList ==
    (pc # "new" /\ Scenario(cfg) /\ PriorKept)
    => /\ obj.exc = ""
       /\ obj.runs = 0 => obj.modelpar = <<"teff", "logg", "radius", "parallax">>
       /\ Has(obj.bounds, "radius") /\ Get(obj.bounds, "radius") = DefaultRadiusBound
       /\ Has(obj.normal_prior, "parallax")
       /\ Get(obj.normal_prior, "parallax") = ObjParallax
       /\ ~Has(obj.bounds, "parallax")
       /\ obj.cube_index
          = << <<"teff", 0>>, <<"logg", 1>>, <<"radius", 2>>, <<"parallax", 3>> >>

\* The object of the scenario was constructed and a vector got a finite value
C26_ScenarioEvaluated ==
    /\ Called /\ Scenario(cfg)
    /\ obj.modelpar = <<"teff", "logg", "radius", "parallax">>
    /\ call.res.kind = "value"

\* The form of the log-density that the call at hand used for a spectrum
FormsUsed(spec) ==
    { f \in {"cov:", "gp:", "indep:"} : InList(call.res.terms, f \o spec) }

\* The form that the claim gives to a spectrum: the data have a covariance
\* when they come with the matrix or with its inverse
FormDue(spec) ==
    IF HasCov(obj, spec) \/ HasInvCov(obj, spec) THEN "cov:"
    ELSE IF InList(cfg.fit_corr, spec) THEN "gp:"
    ELSE "indep:"

\* A parameter is registered: it is sampled or fixed
IsRegistered(name) == Has(obj.cube_index, name) \/ Has(obj.fix_param, name)

\* C27: for every included spectrum _lnlike_func uses one of three forms:
\* the supplied covariance when the data have one (also for a dataset of
\* fit_corr), else the Gaussian-process covariance for a dataset of
\* fit_corr, else the independent-pixel form; corr_len_<spec> and
\* corr_amp_<spec> are registered exactly for the datasets that take the
\* Gaussian-process form.
C27_SpectrumForms ==
    /\ (Called /\ call.res.kind \in {"value", "nan"})
       => \A i \in 1..Len(obj.spectrum) :
              /\ FormsUsed(obj.spectrum[i]) = {FormDue(obj.spectrum[i])}
              /\ Count(call.res.terms, FormDue(obj.spectrum[i]) \o obj.spectrum[i]) = 1
    /\ Constructed_ok
       => \A i \in 1..Len(ObjSpectra) :
              LET spec == ObjSpectra[i]
                  gp == InList(obj.spectrum, spec) /\ FormDue(spec) = "gp:"
              IN /\ IsRegistered("corr_len_" \o spec) <=> gp
                 /\ IsRegistered("corr_amp_" \o spec) <=> gp

\* The optional parameters that _lnlike_func reads from the vector
OptionalNames ==
    {"spec_weight", "flux_offset", "vsini", "rad_vel", "logg", "radius"}
    \cup {"vsini_" \o ObjSpectra[i] : i \in 1..Len(ObjSpectra)}
    \cup {"rad_vel_" \o ObjSpectra[i] : i \in 1..Len(ObjSpectra)}

\* The object at hand has a use for the optional parameter p in a call
\* that runs to its end
Reads(p) ==
    IF p = "spec_weight" THEN obj.binary
    ELSE IF p = "flux_offset" THEN TRUE
    ELSE IF p \in {"logg", "radius"}
    THEN Has(obj.normal_prior, "mass") /\ IsRegistered("logg") /\ IsRegistered("radius")
    ELSE Len(obj.spectrum) > 0

\* C28: a fixed parameter is applied in the likelihood with its constant
\* value: for every optional parameter p that _lnlike_func reads
\* (spec_weight, flux_offset, vsini, rad_vel, and logg and radius for the
\* mass prior), a call on an object with p fixed at v uses the value v for
\* p, as a call with p free and sampled at v does.
C28_FixedApplied ==
    (Called /\ call.res.kind = "value")
    => \A p \in OptionalNames :
           (Has(obj.fix_param, p) /\ Reads(p))
           => /\ Has(call.res.applied, p)
              /\ Get(call.res.applied, p) = Get(obj.fix_param, p)

(***************************************************************************)
(* The caller's dictionary between two constructions.                      *)
(***************************************************************************)
ConstructedTwice == pc = "again"

\* What the claim compares between the two objects
SameModel(o1, o2) ==
    /\ o2.exc = ""
    /\ o2.modelpar = o1.modelpar
    /\ o2.bounds = o1.bounds
    /\ o2.fix_param = o1.fix_param
    /\ o2.normal_prior = o1.normal_prior
    /\ o2.cube_index = o1.cube_index

\* C29: a second FitModel(...) with the same bounds dictionary object and the
\* same other arguments has the modelpar, bounds, fix_param, normal_prior and
\* cube_index that the first construction gave
C29_SameTwice == ConstructedTwice => SameModel(Constructed(cfg), again)

(***************************************************************************)
(* The processes of one run.                                               *)
(***************************************************************************)
Writers == { mpi.writers[i] : i \in 1..Len(mpi.writers) }

RunFinished == \A p \in Procs : mpi.proc[p].at \in {"done", "failed", "exited"}

\* C30: in a run of several processes, with or without mpi4py, at most one
\* process creates the output folder and at most one process, that of
\* rank 0, calls Database.add_samples; no two processes write the samples
\* of the run
C30_OneWriter ==
    /\ Cardinality(mpi.made) <= 1
    /\ Cardinality(mpi.saved) <= 1
    /\ Len(mpi.writers) <= 1
    /\ Writers \subseteq {0}

=============================================================================
